---- MODULE Spec2Model ----
(***************************************************************************)
(* engine::coro::Pool<Task> (core/src/engine/coro/pool.hpp): a pool of     *)
(* stackful coroutines kept in two concurrent queues, used by several      *)
(* worker threads at once.                                                 *)
(*                                                                         *)
(* Every access to the pool's shared state (a queue call, a load or a      *)
(* read-modify-write of an atomic counter) is one step of the thread that  *)
(* executes it, and steps of different threads interleave freely. What a   *)
(* thread does on its own between two such accesses (entering a call,      *)
(* constructing a coroutine, wrapping it in a CoroutinePtr, destroying an  *)
(* emptied CoroutinePtr) is part of the neighbouring step.                 *)
(*                                                                         *)
(* Coroutines are told apart by the order of their construction: the k-th  *)
(* coroutine constructed by the pool is the number k. The warm queue gives *)
(* no order across producer tokens: it is the collection of its items, and *)
(* try_dequeue takes any of them. The pristine queue has one producer and  *)
(* is first-in first-out. An allocation (a coroutine's stack, a block of   *)
(* the warm queue) may fail at any time.                                   *)
(***************************************************************************)
EXTENDS Integers, Sequences, FiniteSets, TLC

(* Bounds of the model. *)
NThreads == 2
MaxCoroutines == 3
MaxInitialSize == 2
MaxMaxSize == 2
SizeBits == 4
MaxStackUsagePct == 2
MaxFixupCalls == 2
MaxLogErrors == 2
NTasks == 2
MaxCount == 2

Threads == 1..NThreads
CoroIds == 1..MaxCoroutines

(* The thread that runs Pool::Pool. *)
Constructor == CHOOSE t \in Threads : TRUE

(* PoolConfig's monitoring periods: zero (monitoring disabled) or not. *)
MonitorPeriods == 0..1

(* std::size_t, SizeBits wide: the atomics wrap modulo SizeModulus. *)
SizeModulus == 2^SizeBits

(* A moved-from (or never filled) Coroutine: operator bool gives false. *)
Null == 0

VARIABLES
    config_,               \* PoolConfig: [initial_size, max_size, monitor_period]
    initial_coroutines_,   \* the pristine queue (one producer: the constructor)
    used_coroutines_,      \* the warm queue: the coroutines it holds
    idle_coroutines_num_,  \* std::atomic<std::size_t>
    total_coroutines_num_, \* std::atomic<std::size_t>
    pc,                    \* where each thread is in its current call
    coroutine_ptr,         \* the handle the thread's current call works on
    leases,                \* CoroutinePtr objects holding a coroutine, in no call
    destroyed,             \* coroutines whose destructor has run
    created,               \* number of coroutines constructed so far
    acquired,              \* history: coroutines GetCoroutine has handed out
    releasers_peak,        \* history: most threads inside PutCoroutine at once
    registered,            \* coroutines passed to stack_usage_monitor_.Register
    monitor_active,        \* stack_usage_monitor_.IsActive()
    max_stack_usage_pct,   \* stack_usage_monitor_.GetMaxStackUsagePct()
    resumed,               \* coroutines whose body has been entered
    config,                \* FixupConfig: the PoolConfig it works on
    config_given,          \* FixupConfig: the PoolConfig the caller passed
    page_size,             \* FixupConfig: utils::sys_info::GetPageSize()
    fixup_calls,           \* FixupConfig: number of applications so far
    errno,                 \* each thread's errno
    log_errors,            \* number of LOG_ERROR diagnostics emitted
    used_of,               \* two pools: used_coroutines_ of each pool
    initial_of,            \* two pools: initial_coroutines_ of each pool
    idle_of,               \* two pools: idle_coroutines_num_ of each pool
    total_of,              \* two pools: total_coroutines_num_ of each pool
    leases_of,             \* two pools: the CoroutinePtrs out, <<coro_, pool_>>
    created_of,            \* two pools: coroutines each pool has constructed
    producer_token,        \* each thread's thread_local ProducerToken: its queue
    consumer_token,        \* each thread's thread_local ConsumerToken: its queue
    mutex_owner,           \* Mutex: the task that holds it, or NoTask
    task_at,               \* Mutex: where each task is in its call
    cancel_requested,      \* Mutex: tasks whose cancellation was requested
    deadline_reached,      \* Mutex: tasks whose try_lock deadline has passed
    dumper_mutex,          \* Dumper: the caller inside a serialised operation
    dump_task,             \* Dumper: the state of the asynchronous write task
    caller_at,             \* Dumper: where each caller is in its call
    entity_mutex,          \* DummyEntity::mutex: who holds it
    try_lock_failed,       \* DummyEntity: a try_to_lock did not get the mutex
    updated,               \* Dumper: an update with changes awaits a dump
    write_count,           \* DummyEntity::write_count
    read_count,            \* DummyEntity::read_count
    stats_pc,              \* GetStats: where the caller of GetStats is
    stats_reads,           \* GetStats: what its loads of the operands gave
    stats                  \* GetStats: the PoolStats returned, or NoStats

(* The state of the pool's queues, counters, leases and monitor. *)
pool_vars == <<config_, initial_coroutines_, used_coroutines_,
               idle_coroutines_num_, total_coroutines_num_, pc, coroutine_ptr,
               leases, destroyed, created, acquired, releasers_peak,
               registered, monitor_active, max_stack_usage_pct, resumed>>

(* The state of the computation of the stack size. *)
fixup_vars == <<config, config_given, page_size, fixup_calls>>

(* What the catch block of CreateCoroutine reads and writes. *)
alloc_vars == <<errno, log_errors>>

(* Two pools of one Task type used by the same threads. *)
token_vars == <<used_of, initial_of, idle_of, total_of, leases_of, created_of,
                producer_token, consumer_token>>

(* A mutex and the tasks that lock it. *)
mutex_vars == <<mutex_owner, task_at, cancel_requested, deadline_reached>>

(* A Dumper, its callers and the entity it dumps. *)
dumper_vars == <<dumper_mutex, dump_task, caller_at, entity_mutex,
                 try_lock_failed, updated, write_count, read_count>>

(* A thread that calls GetStats next to the threads that use the pool. *)
stats_vars == <<stats_pc, stats_reads, stats>>

(* What no step of the pool's queues and counters touches. *)
outside_pool == <<fixup_vars, alloc_vars, token_vars, mutex_vars,
    dumper_vars, stats_vars>>

(* What FixupConfig does not touch. *)
outside_fixup == <<pool_vars, alloc_vars, token_vars, mutex_vars,
    dumper_vars, stats_vars>>

(* What the pool and the catch block of CreateCoroutine do not touch. *)
outside_alloc == <<fixup_vars, token_vars, mutex_vars,
    dumper_vars, stats_vars>>

(* What the two pools do not touch. *)
outside_tokens == <<pool_vars, fixup_vars, alloc_vars, mutex_vars,
    dumper_vars, stats_vars>>

(* What the mutex and its tasks do not touch. *)
outside_mutex == <<pool_vars, fixup_vars, alloc_vars, token_vars,
    dumper_vars, stats_vars>>

(* What the Dumper and its callers do not touch. *)
outside_dumper == <<pool_vars, fixup_vars, alloc_vars, token_vars, mutex_vars,
    stats_vars>>

(* What GetStats does not touch. *)
outside_stats == <<pool_vars, fixup_vars, alloc_vars, token_vars, mutex_vars,
    dumper_vars>>

vars == <<pool_vars, outside_pool>>

(* The value of a variable in a specification that does not use it. *)
Unused == "unused"

(* The monitor's published state: no call of the pool's hot path writes it. *)
monitor_state == <<monitor_active, max_stack_usage_pct>>

(***************************************************************************)
(* Helpers                                                                 *)
(***************************************************************************)
(* moodycamel::ConcurrentQueue::size_approx, with no call in progress. *)
InitialSize == Len(initial_coroutines_)
UsedSize == Cardinality(used_coroutines_)

(* ++x and --x on std::atomic<std::size_t>. *)
AtomicInc(x) == (x + 1) % SizeModulus
AtomicDec(x) == (x + SizeModulus - 1) % SizeModulus

(* A destructor that forgets the counter. *)
OnCoroutineDestruction_NoDec(total) == total

(* A destructor that counts the coroutine out twice. *)
OnCoroutineDestruction_Twice(total) == AtomicDec(AtomicDec(total))

(* Pool::OnCoroutineDestruction: --total_coroutines_num_. *)
OnCoroutineDestruction(total) == AtomicDec(total)

(* A ceiling check that is off by one: it rejects at max_size - 1. *)
CeilingReached_OffByOne(idle, max_size) == idle + 1 >= max_size

(* A PutCoroutine without its ceiling check. *)
CeilingReached_Never(idle, max_size) == FALSE

(* PutCoroutine's ceiling check: idle_coroutines_num_.load() >= max_size. *)
CeilingReached(idle, max_size) == idle >= max_size

(* An enqueue that copies the handle and leaves the lease holding it. *)
MovedFrom_Kept(c) == c

(* CoroutinePtr's coro_ after `std::move(coroutine_ptr.Get())` was enqueued. *)
MovedFrom(c) == Null

(* A dequeue that hands out an item and leaves it in the queue. *)
Dequeued_Kept(q, c) == q

(* The warm queue a successful try_dequeue of item c leaves. *)
Dequeued(q, c) == q \ {c}

(* The warm queue a successful enqueue of item c leaves. *)
Enqueued(q, c) == q \cup {c}

(* A GetCoroutine that never looks at the warm queue. *)
UsedEmpty_Skipped == TRUE

(* Whether used_coroutines_.try_dequeue fails (no sub-queue has an item). *)
UsedEmpty == used_coroutines_ = {}

Max(a, b) == IF a >= b THEN a ELSE b

(* A GetStats that forgets the pristine queue. *)
GetStats_active_WarmOnly(total, used_size, initial_size) ==
    (total + SizeModulus - (used_size % SizeModulus)) % SizeModulus

(* Pool::GetStats: active_coroutines, from the values its three reads give *)
(* (std::size_t arithmetic), and total_coroutines from the second load of  *)
(* total_coroutines_num_.                                                  *)
GetStats_active(total, used_size, initial_size) ==
    (total + 2 * SizeModulus - ((used_size + initial_size) % SizeModulus))
        % SizeModulus
GetStats_total(total, active) == Max(total, active)

(* The PoolStats of a GetStats call that no step of another thread         *)
(* interleaves with.                                                       *)
GetStats ==
    [active_coroutines |->
         GetStats_active(total_coroutines_num_, UsedSize, InitialSize),
     total_coroutines |->
         GetStats_total(total_coroutines_num_,
             GetStats_active(total_coroutines_num_, UsedSize, InitialSize)),
     max_stack_usage_pct |-> max_stack_usage_pct,
     is_stack_usage_monitor_active |-> monitor_active]

(* StackUsageMonitor::Start: the monitor runs when its period is not zero. *)
StackUsageMonitor_Start(period) == period > 0

(* StackUsageMonitor::~StackUsageMonitor: the monitor is stopped. *)
StackUsageMonitor_Stop == FALSE

(* stack_usage_monitor_.Register(coroutine): the coroutine is one of those *)
(* the pool has passed to the monitor.                                     *)
Register(table, c) == table \cup {c}

InPut(t) == pc[t] \in {"put_enqueue", "put_inc"}
Releasers == {t \in Threads : InPut(t)}

(* Threads whose GetCoroutine may still have to construct a coroutine. *)
MayCreate == {t \in Threads : pc[t] = "get_initial"}

(***************************************************************************)
(* Pool::FixupConfig, which the constructor's first member initialiser     *)
(* applies to the PoolConfig it is given, and Pool::GetStackSize. The      *)
(* stack size and the page size are std::size_t, SizeBits wide.            *)
(***************************************************************************)
RECURSIVE BitAnd(_, _)
BitAnd(a, b) ==
    IF a = 0 \/ b = 0 THEN 0
    ELSE (a % 2) * (b % 2) + 2 * BitAnd(a \div 2, b \div 2)

(* ~x on a std::size_t. *)
BitNot(x) == SizeModulus - 1 - x

(* A FixupConfig that rounds down. *)
FixupConfig_RoundDown(cfg, page) ==
    [cfg EXCEPT !.stack_size = BitAnd(cfg.stack_size, BitNot(page - 1))]

(* config.stack_size = (config.stack_size + page_size - 1) & ~(page_size - 1) *)
FixupConfig(cfg, page) ==
    [cfg EXCEPT !.stack_size =
        BitAnd((cfg.stack_size + page - 1) % SizeModulus, BitNot(page - 1))]

(* Pool::GetStackSize of a pool whose config_ is cfg. *)
GetStackSize(cfg) == cfg.stack_size

(* The page sizes of a system: the powers of two a std::size_t holds. *)
PageSizes == {2^k : k \in 0..(SizeBits - 1)}

PoolConfigs ==
    [stack_size : 0..(SizeModulus - 1), initial_size : 0..MaxInitialSize,
     max_size : 0..MaxMaxSize, monitor_period : MonitorPeriods]

FixupUnused ==
    /\ config = Unused
    /\ config_given = Unused
    /\ page_size = Unused
    /\ fixup_calls = Unused

AllocUnused ==
    /\ errno = Unused
    /\ log_errors = Unused

TokensUnused ==
    /\ used_of = Unused
    /\ initial_of = Unused
    /\ idle_of = Unused
    /\ total_of = Unused
    /\ leases_of = Unused
    /\ created_of = Unused
    /\ producer_token = Unused
    /\ consumer_token = Unused

MutexUnused ==
    /\ mutex_owner = Unused
    /\ task_at = Unused
    /\ cancel_requested = Unused
    /\ deadline_reached = Unused

StatsUnused ==
    /\ stats_pc = Unused
    /\ stats_reads = Unused
    /\ stats = Unused

DumperUnused ==
    /\ dumper_mutex = Unused
    /\ dump_task = Unused
    /\ caller_at = Unused
    /\ entity_mutex = Unused
    /\ try_lock_failed = Unused
    /\ updated = Unused
    /\ write_count = Unused
    /\ read_count = Unused

PoolUnused ==
    /\ config_ = Unused
    /\ initial_coroutines_ = Unused
    /\ used_coroutines_ = Unused
    /\ idle_coroutines_num_ = Unused
    /\ total_coroutines_num_ = Unused
    /\ pc = Unused
    /\ coroutine_ptr = Unused
    /\ leases = Unused
    /\ destroyed = Unused
    /\ created = Unused
    /\ acquired = Unused
    /\ releasers_peak = Unused
    /\ registered = Unused
    /\ monitor_active = Unused
    /\ max_stack_usage_pct = Unused
    /\ resumed = Unused

(* The PoolConfig a caller passes to Pool::Pool, on a system with some     *)
(* page size.                                                              *)
InitFixup ==
    /\ config \in PoolConfigs
    /\ config_given = config
    /\ page_size \in PageSizes
    /\ fixup_calls = 0
    /\ PoolUnused
    /\ AllocUnused
    /\ TokensUnused
    /\ MutexUnused
    /\ DumperUnused
    /\ StatsUnused

(* One application of FixupConfig: the constructor's, then any further one *)
(* to the config it returned.                                              *)
FixupConfig_Call ==
    /\ fixup_calls < MaxFixupCalls
    /\ config' = FixupConfig(config, page_size)
    /\ fixup_calls' = fixup_calls + 1
    /\ UNCHANGED <<config_given, page_size, outside_fixup>>

NextFixup == FixupConfig_Call

SpecFixup == InitFixup /\ [][NextFixup]_vars

(***************************************************************************)
(* Pool::Pool. Init is the state the member initialisers leave; the body   *)
(* runs on one thread before any other thread can reach the pool, one step *)
(* per statement (an iteration of the population loop is one statement).   *)
(***************************************************************************)
PoolInit ==
    /\ config_ \in [initial_size : 0..MaxInitialSize, max_size : 0..MaxMaxSize,
                    monitor_period : MonitorPeriods]
    /\ initial_coroutines_ = <<>>
    /\ used_coroutines_ = {}
    /\ idle_coroutines_num_ = config_.initial_size
    /\ total_coroutines_num_ = 0
    /\ pc = [t \in Threads |-> IF t = Constructor THEN "ctor_start" ELSE "no_pool"]
    /\ coroutine_ptr = [t \in Threads |-> Null]
    /\ leases = {}
    /\ destroyed = {}
    /\ created = 0
    /\ acquired = {}
    /\ releasers_peak = 0
    /\ registered = {}
    /\ monitor_active = FALSE
    /\ max_stack_usage_pct = 0
    /\ resumed = {}

Init ==
    /\ PoolInit
    /\ FixupUnused
    /\ AllocUnused
    /\ TokensUnused
    /\ MutexUnused
    /\ DumperUnused
    /\ StatsUnused

(* A constructor that does not start the monitor. *)
Pool_StartMonitor_Skipped ==
    /\ pc[Constructor] = "ctor_start"
    /\ pc' = [pc EXCEPT ![Constructor] = "ctor_loop"]
    /\ UNCHANGED <<outside_pool, config_, monitor_state, resumed, registered,
                   initial_coroutines_, used_coroutines_,
                   idle_coroutines_num_, total_coroutines_num_, coroutine_ptr,
                   leases, destroyed, created, acquired, releasers_peak>>

(* stack_usage_monitor_.Start(), called whatever the configuration is. *)
Pool_StartMonitor ==
    /\ pc[Constructor] = "ctor_start"
    /\ monitor_active' = StackUsageMonitor_Start(config_.monitor_period)
    /\ pc' = [pc EXCEPT ![Constructor] = "ctor_loop"]
    /\ UNCHANGED <<outside_pool, config_, initial_coroutines_, used_coroutines_,
                   idle_coroutines_num_, total_coroutines_num_, coroutine_ptr,
                   leases, destroyed, created, acquired, releasers_peak,
                   registered, max_stack_usage_pct, resumed>>

(* An iteration that does not count the coroutine it makes. *)
Pool_Populate_Uncounted ==
    /\ pc[Constructor] = "ctor_loop"
    /\ InitialSize < config_.initial_size
    /\ created' = created + 1
    /\ registered' = Register(registered, created + 1)
    /\ initial_coroutines_' = Append(initial_coroutines_, created + 1)
    /\ UNCHANGED <<outside_pool, config_, monitor_state, resumed,
                   used_coroutines_,
                   idle_coroutines_num_, total_coroutines_num_, pc,
                   coroutine_ptr, leases, destroyed, acquired, releasers_peak>>

(* One iteration of the loop: CreateCoroutine(quiet) constructs, counts and *)
(* registers a coroutine, and initial_coroutines_.enqueue gives true.       *)
Pool_Populate ==
    /\ pc[Constructor] = "ctor_loop"
    /\ InitialSize < config_.initial_size
    /\ created' = created + 1
    /\ total_coroutines_num_' = AtomicInc(total_coroutines_num_)
    /\ registered' = Register(registered, created + 1)
    /\ initial_coroutines_' = Append(initial_coroutines_, created + 1)
    /\ UNCHANGED <<outside_pool, config_, monitor_state, resumed,
                   used_coroutines_,
                   idle_coroutines_num_, pc, coroutine_ptr, leases, destroyed,
                   acquired, releasers_peak>>

(* A constructor that swallows the exception and ends with the coroutines  *)
(* it has.                                                                  *)
Pool_PopulateBadAlloc_Swallowed ==
    /\ pc[Constructor] = "ctor_loop"
    /\ InitialSize < config_.initial_size
    /\ pc' = [t \in Threads |-> "idle"]
    /\ UNCHANGED <<outside_pool, config_, monitor_state, resumed,
                   registered, initial_coroutines_, used_coroutines_,
                   idle_coroutines_num_, total_coroutines_num_, coroutine_ptr,
                   leases, destroyed, created, acquired, releasers_peak>>

(* CreateCoroutine(quiet) throws std::bad_alloc: the exception leaves the   *)
(* constructor, there is no pool.                                           *)
Pool_PopulateBadAlloc ==
    /\ pc[Constructor] = "ctor_loop"
    /\ InitialSize < config_.initial_size
    /\ pc' = [pc EXCEPT ![Constructor] = "ctor_throw"]
    /\ UNCHANGED <<outside_pool, config_, monitor_state, resumed, registered,
                   initial_coroutines_, used_coroutines_,
                   idle_coroutines_num_, total_coroutines_num_, coroutine_ptr,
                   leases, destroyed, created, acquired, releasers_peak>>

(* The enqueue gives false: UINVARIANT(ok, ...) fails with the coroutine    *)
(* still in the hands of the constructor.                                   *)
Pool_PopulateEnqueueFail ==
    /\ pc[Constructor] = "ctor_loop"
    /\ InitialSize < config_.initial_size
    /\ created' = created + 1
    /\ total_coroutines_num_' = AtomicInc(total_coroutines_num_)
    /\ registered' = Register(registered, created + 1)
    /\ coroutine_ptr' = [coroutine_ptr EXCEPT ![Constructor] = created + 1]
    /\ pc' = [pc EXCEPT ![Constructor] = "ctor_invariant"]
    /\ UNCHANGED <<outside_pool, config_, monitor_state, resumed,
                   initial_coroutines_,
                   used_coroutines_, idle_coroutines_num_, leases, destroyed,
                   acquired, releasers_peak>>

(* A constructor that refuses a config with initial_size > max_size. *)
Pool_Constructed_Validating ==
    /\ pc[Constructor] = "ctor_loop"
    /\ InitialSize = config_.initial_size
    /\ config_.initial_size <= config_.max_size
    /\ pc' = [t \in Threads |-> "idle"]
    /\ UNCHANGED <<outside_pool, config_, monitor_state, resumed,
                   registered, initial_coroutines_, used_coroutines_,
                   idle_coroutines_num_, total_coroutines_num_, coroutine_ptr,
                   leases, destroyed, created, acquired, releasers_peak>>

(* The loop ends (i = config_.initial_size): the pool is constructed, and   *)
(* every thread may call it.                                                *)
Pool_Constructed ==
    /\ pc[Constructor] = "ctor_loop"
    /\ InitialSize = config_.initial_size
    /\ pc' = [t \in Threads |-> "idle"]
    /\ UNCHANGED <<outside_pool, config_, monitor_state, resumed, registered,
                   initial_coroutines_, used_coroutines_,
                   idle_coroutines_num_, total_coroutines_num_, coroutine_ptr,
                   leases, destroyed, created, acquired, releasers_peak>>

(***************************************************************************)
(* Pool::GetCoroutine                                                      *)
(***************************************************************************)
(* used_coroutines_.try_dequeue(token, mover): the call's first step. *)
GetCoroutine_TryUsed(t) ==
    /\ pc[t] = "idle"
    /\ created + Cardinality(MayCreate) < MaxCoroutines
    /\ IF UsedEmpty
       THEN /\ pc' = [pc EXCEPT ![t] = "get_initial"]
            /\ UNCHANGED <<used_coroutines_, coroutine_ptr>>
       ELSE \E c \in used_coroutines_ :
            /\ coroutine_ptr' = [coroutine_ptr EXCEPT ![t] = c]
            /\ used_coroutines_' = Dequeued(used_coroutines_, c)
            /\ pc' = [pc EXCEPT ![t] = "get_dec"]
    /\ UNCHANGED <<outside_pool, config_, monitor_state, resumed, registered,
                   initial_coroutines_,
                   idle_coroutines_num_, total_coroutines_num_, leases,
                   destroyed, created, acquired, releasers_peak>>

(* initial_coroutines_.try_dequeue(mover), after the warm queue gave nothing. *)
GetCoroutine_TryInitial(t) ==
    /\ pc[t] = "get_initial"
    /\ initial_coroutines_ # <<>>
    /\ coroutine_ptr' = [coroutine_ptr EXCEPT ![t] = Head(initial_coroutines_)]
    /\ initial_coroutines_' = Tail(initial_coroutines_)
    /\ pc' = [pc EXCEPT ![t] = "get_dec"]
    /\ UNCHANGED <<outside_pool, config_, monitor_state, resumed, registered,
                   used_coroutines_,
                   idle_coroutines_num_, total_coroutines_num_, leases,
                   destroyed, created, acquired, releasers_peak>>

(* A hit that hands the coroutine out and leaves the idle counter alone. *)
GetCoroutine_DecIdle_Skipped(t) ==
    /\ pc[t] = "get_dec"
    /\ leases' = leases \cup {coroutine_ptr[t]}
    /\ acquired' = acquired \cup {coroutine_ptr[t]}
    /\ coroutine_ptr' = [coroutine_ptr EXCEPT ![t] = Null]
    /\ pc' = [pc EXCEPT ![t] = "idle"]
    /\ UNCHANGED <<outside_pool, config_, monitor_state, resumed, registered,
                   initial_coroutines_, used_coroutines_,
                   idle_coroutines_num_, total_coroutines_num_, destroyed,
                   created, releasers_peak>>

(* A hit whose counter update waits while a PutCoroutine is between its    *)
(* enqueue and its increment.                                              *)
GetCoroutine_DecIdle_Locked(t) ==
    /\ pc[t] = "get_dec"
    /\ \A u \in Threads \ {t} : pc[u] # "put_inc"
    /\ idle_coroutines_num_' = AtomicDec(idle_coroutines_num_)
    /\ leases' = leases \cup {coroutine_ptr[t]}
    /\ acquired' = acquired \cup {coroutine_ptr[t]}
    /\ coroutine_ptr' = [coroutine_ptr EXCEPT ![t] = Null]
    /\ pc' = [pc EXCEPT ![t] = "idle"]
    /\ UNCHANGED <<outside_pool, config_, monitor_state, resumed, registered,
                   initial_coroutines_, used_coroutines_,
                   total_coroutines_num_, destroyed, created, releasers_peak>>

(* --idle_coroutines_num_ after a hit, and the return of the CoroutinePtr. *)
GetCoroutine_DecIdle(t) ==
    /\ pc[t] = "get_dec"
    /\ idle_coroutines_num_' = AtomicDec(idle_coroutines_num_)
    /\ leases' = leases \cup {coroutine_ptr[t]}
    /\ acquired' = acquired \cup {coroutine_ptr[t]}
    /\ coroutine_ptr' = [coroutine_ptr EXCEPT ![t] = Null]
    /\ pc' = [pc EXCEPT ![t] = "idle"]
    /\ UNCHANGED <<outside_pool, config_, monitor_state, resumed, registered,
                   initial_coroutines_, used_coroutines_,
                   total_coroutines_num_, destroyed, created, releasers_peak>>

(***************************************************************************)
(* Pool::CreateCoroutine, called by GetCoroutine on a miss of both queues  *)
(***************************************************************************)
(* A GetCoroutine that allocates only while total_coroutines_num_ is below  *)
(* max_size.                                                                *)
CreateCoroutine_Construct_Capped(t) ==
    /\ pc[t] = "get_initial"
    /\ initial_coroutines_ = <<>>
    /\ total_coroutines_num_ < config_.max_size
    /\ created' = created + 1
    /\ coroutine_ptr' = [coroutine_ptr EXCEPT ![t] = created + 1]
    /\ pc' = [pc EXCEPT ![t] = "create_inc"]
    /\ UNCHANGED <<outside_pool, config_, monitor_state, resumed, registered,
                   initial_coroutines_, used_coroutines_,
                   idle_coroutines_num_, total_coroutines_num_, leases,
                   destroyed, acquired, releasers_peak>>

(* The pristine queue gives nothing either (the else branch), and            *)
(* Coroutine coroutine(stack_allocator_, executor_) succeeds.               *)
CreateCoroutine_Construct(t) ==
    /\ pc[t] = "get_initial"
    /\ initial_coroutines_ = <<>>
    /\ created' = created + 1
    /\ coroutine_ptr' = [coroutine_ptr EXCEPT ![t] = created + 1]
    /\ pc' = [pc EXCEPT ![t] = "create_inc"]
    /\ UNCHANGED <<outside_pool, config_, monitor_state, resumed, registered,
                   initial_coroutines_, used_coroutines_,
                   idle_coroutines_num_, total_coroutines_num_, leases,
                   destroyed, acquired, releasers_peak>>

(* A CreateCoroutine that counts the coroutine before constructing it. *)
CreateCoroutine_BadAlloc_Counted(t) ==
    /\ pc[t] = "get_initial"
    /\ initial_coroutines_ = <<>>
    /\ total_coroutines_num_' = AtomicInc(total_coroutines_num_)
    /\ pc' = [pc EXCEPT ![t] = "get_throw"]
    /\ UNCHANGED <<outside_pool, config_, monitor_state, resumed, registered,
                   initial_coroutines_, used_coroutines_,
                   idle_coroutines_num_, coroutine_ptr,
                   leases, destroyed, created, acquired, releasers_peak>>

(* The pristine queue gives nothing either, and the constructor throws       *)
(* std::bad_alloc; the catch block logs and rethrows.                       *)
CreateCoroutine_BadAlloc(t) ==
    /\ pc[t] = "get_initial"
    /\ initial_coroutines_ = <<>>
    /\ pc' = [pc EXCEPT ![t] = "get_throw"]
    /\ UNCHANGED <<outside_pool, config_, monitor_state, resumed, registered,
                   initial_coroutines_, used_coroutines_,
                   idle_coroutines_num_, total_coroutines_num_, coroutine_ptr,
                   leases, destroyed, created, acquired, releasers_peak>>

(* A CreateCoroutine that does not count the coroutine it constructed. *)
CreateCoroutine_IncTotal_Skipped(t) ==
    /\ pc[t] = "create_inc"
    /\ pc' = [pc EXCEPT ![t] = "create_reg"]
    /\ UNCHANGED <<outside_pool, config_, total_coroutines_num_, monitor_state, resumed, registered,
                   initial_coroutines_, used_coroutines_,
                   idle_coroutines_num_, coroutine_ptr, leases, destroyed,
                   created, acquired, releasers_peak>>

(* const auto new_total = ++total_coroutines_num_ (and the debug log). *)
CreateCoroutine_IncTotal(t) ==
    /\ pc[t] = "create_inc"
    /\ total_coroutines_num_' = AtomicInc(total_coroutines_num_)
    /\ pc' = [pc EXCEPT ![t] = "create_reg"]
    /\ UNCHANGED <<outside_pool, config_, monitor_state, resumed, registered,
                   initial_coroutines_, used_coroutines_,
                   idle_coroutines_num_, coroutine_ptr, leases, destroyed,
                   created, acquired, releasers_peak>>

(* A CreateCoroutine that returns the coroutine without registering it. *)
CreateCoroutine_Register_Skipped(t) ==
    /\ pc[t] = "create_reg"
    /\ leases' = leases \cup {coroutine_ptr[t]}
    /\ acquired' = acquired \cup {coroutine_ptr[t]}
    /\ coroutine_ptr' = [coroutine_ptr EXCEPT ![t] = Null]
    /\ pc' = [pc EXCEPT ![t] = "idle"]
    /\ UNCHANGED <<outside_pool, config_, monitor_state, resumed, registered,
                   initial_coroutines_, used_coroutines_,
                   idle_coroutines_num_, total_coroutines_num_, destroyed,
                   created, releasers_peak>>

(* stack_usage_monitor_.Register(coroutine), and the return of the         *)
(* CoroutinePtr from GetCoroutine.                                          *)
CreateCoroutine_Register(t) ==
    /\ pc[t] = "create_reg"
    /\ registered' = Register(registered, coroutine_ptr[t])
    /\ leases' = leases \cup {coroutine_ptr[t]}
    /\ acquired' = acquired \cup {coroutine_ptr[t]}
    /\ coroutine_ptr' = [coroutine_ptr EXCEPT ![t] = Null]
    /\ pc' = [pc EXCEPT ![t] = "idle"]
    /\ UNCHANGED <<outside_pool, config_, monitor_state, resumed,
                   initial_coroutines_,
                   used_coroutines_, idle_coroutines_num_,
                   total_coroutines_num_, destroyed, created, releasers_peak>>

(* The exception leaves GetCoroutine: the caller has the error. *)
GetCoroutine_Throw(t) ==
    /\ pc[t] = "get_throw"
    /\ pc' = [pc EXCEPT ![t] = "idle"]
    /\ UNCHANGED <<outside_pool, config_, monitor_state, resumed, registered,
                   initial_coroutines_, used_coroutines_,
                   idle_coroutines_num_, total_coroutines_num_, coroutine_ptr,
                   leases, destroyed, created, acquired, releasers_peak>>

(***************************************************************************)
(* CoroutinePtr::ReturnToPool -> Pool::PutCoroutine                        *)
(***************************************************************************)
(* The call on lease c, and `if (idle_coroutines_num_.load() >= max_size) return`. *)
PutCoroutine_Check(t, c) ==
    /\ pc[t] = "idle"
    /\ c \in leases
    /\ leases' = leases \ {c}
    /\ coroutine_ptr' = [coroutine_ptr EXCEPT ![t] = c]
    /\ pc' = [pc EXCEPT ![t] =
                 IF CeilingReached(idle_coroutines_num_, config_.max_size)
                 THEN "lease_dtor" ELSE "put_enqueue"]
    /\ releasers_peak' = Max(releasers_peak, Cardinality(Releasers \cup {t}))
    /\ UNCHANGED <<outside_pool, config_, monitor_state, resumed, registered,
                   initial_coroutines_, used_coroutines_,
                   idle_coroutines_num_, total_coroutines_num_, destroyed,
                   created, acquired>>

(* A PutCoroutine that returns the coroutine into the pristine queue. *)
PutCoroutine_Enqueue_Pristine(t) ==
    /\ pc[t] = "put_enqueue"
    /\ initial_coroutines_' = Append(initial_coroutines_, coroutine_ptr[t])
    /\ coroutine_ptr' = [coroutine_ptr EXCEPT ![t] = Null]
    /\ pc' = [pc EXCEPT ![t] = "put_inc"]
    /\ UNCHANGED <<outside_pool, config_, monitor_state, resumed, registered,
                   used_coroutines_, idle_coroutines_num_,
                   total_coroutines_num_, leases, destroyed, created,
                   acquired, releasers_peak>>

(* used_coroutines_.enqueue(token, std::move(coroutine_ptr.Get())) gives true. *)
PutCoroutine_Enqueue(t) ==
    /\ pc[t] = "put_enqueue"
    /\ used_coroutines_' = Enqueued(used_coroutines_, coroutine_ptr[t])
    /\ coroutine_ptr' = [coroutine_ptr EXCEPT ![t] = MovedFrom(coroutine_ptr[t])]
    /\ pc' = [pc EXCEPT ![t] = "put_inc"]
    /\ UNCHANGED <<outside_pool, config_, monitor_state, resumed, registered,
                   initial_coroutines_,
                   idle_coroutines_num_, total_coroutines_num_, leases,
                   destroyed, created, acquired, releasers_peak>>

(* A failed enqueue that has already moved the coroutine out of the lease. *)
PutCoroutine_EnqueueFail_Lose(t) ==
    /\ pc[t] = "put_enqueue"
    /\ coroutine_ptr' = [coroutine_ptr EXCEPT ![t] = Null]
    /\ pc' = [pc EXCEPT ![t] = "lease_dtor"]
    /\ UNCHANGED <<outside_pool, config_, monitor_state, resumed, registered,
                   initial_coroutines_, used_coroutines_,
                   idle_coroutines_num_, total_coroutines_num_,
                   leases, destroyed, created, acquired, releasers_peak>>

(* enqueue gives false (it could not allocate a block): nothing is moved. *)
PutCoroutine_EnqueueFail(t) ==
    /\ pc[t] = "put_enqueue"
    /\ pc' = [pc EXCEPT ![t] = "lease_dtor"]
    /\ UNCHANGED <<outside_pool, config_, monitor_state, resumed, registered,
                   initial_coroutines_, used_coroutines_,
                   idle_coroutines_num_, total_coroutines_num_, coroutine_ptr,
                   leases, destroyed, created, acquired, releasers_peak>>

(* A PutCoroutine that enqueues and leaves the idle counter alone. *)
PutCoroutine_IncIdle_Skipped(t) ==
    /\ pc[t] = "put_inc"
    /\ IF coroutine_ptr[t] # Null
       THEN /\ total_coroutines_num_' = OnCoroutineDestruction(total_coroutines_num_)
            /\ destroyed' = destroyed \cup {coroutine_ptr[t]}
       ELSE UNCHANGED <<total_coroutines_num_, destroyed>>
    /\ coroutine_ptr' = [coroutine_ptr EXCEPT ![t] = Null]
    /\ pc' = [pc EXCEPT ![t] = "idle"]
    /\ UNCHANGED <<outside_pool, config_, idle_coroutines_num_,
                   monitor_state, resumed, registered,
                   initial_coroutines_, used_coroutines_,
                   leases, created, acquired, releasers_peak>>

(* if (ok) ++idle_coroutines_num_, and the return to the lease's owner, who  *)
(* destroys the lease: `if (coro_)` finds the emptied lease's coro_ false.   *)
PutCoroutine_IncIdle(t) ==
    /\ pc[t] = "put_inc"
    /\ idle_coroutines_num_' = AtomicInc(idle_coroutines_num_)
    /\ IF coroutine_ptr[t] # Null
       THEN /\ total_coroutines_num_' = OnCoroutineDestruction(total_coroutines_num_)
            /\ destroyed' = destroyed \cup {coroutine_ptr[t]}
       ELSE UNCHANGED <<total_coroutines_num_, destroyed>>
    /\ coroutine_ptr' = [coroutine_ptr EXCEPT ![t] = Null]
    /\ pc' = [pc EXCEPT ![t] = "idle"]
    /\ UNCHANGED <<outside_pool, config_, monitor_state, resumed, registered,
                   initial_coroutines_, used_coroutines_,
                   leases, created, acquired, releasers_peak>>

(***************************************************************************)
(* CoroutinePtr::~CoroutinePtr: `if (coro_) pool_->OnCoroutineDestruction()`, *)
(* then the member coro_ is destroyed (a live coroutine's stack is freed).  *)
(***************************************************************************)
(* The destructor of a lease that ReturnToPool has not emptied. *)
CoroutinePtr_Destructor(t) ==
    /\ pc[t] = "lease_dtor"
    /\ coroutine_ptr[t] # Null
    /\ total_coroutines_num_' = OnCoroutineDestruction(total_coroutines_num_)
    /\ destroyed' = destroyed \cup {coroutine_ptr[t]}
    /\ coroutine_ptr' = [coroutine_ptr EXCEPT ![t] = Null]
    /\ pc' = [pc EXCEPT ![t] = "idle"]
    /\ UNCHANGED <<outside_pool, config_, monitor_state, resumed, registered,
                   initial_coroutines_, used_coroutines_,
                   idle_coroutines_num_, leases, created, acquired,
                   releasers_peak>>

(* A lease whose destructor returns the coroutine to the warm queue. *)
CoroutinePtr_Drop_AutoReturn(t, c) ==
    /\ pc[t] = "idle"
    /\ c \in leases
    /\ leases' = leases \ {c}
    /\ used_coroutines_' = Enqueued(used_coroutines_, c)
    /\ idle_coroutines_num_' = AtomicInc(idle_coroutines_num_)
    /\ UNCHANGED <<outside_pool, config_, monitor_state, resumed, registered,
                   initial_coroutines_, total_coroutines_num_, pc,
                   coroutine_ptr, destroyed, created, acquired, releasers_peak>>

(* The destructor of a lease that still holds its coroutine, never returned. *)
CoroutinePtr_Drop(t, c) ==
    /\ pc[t] = "idle"
    /\ c \in leases
    /\ leases' = leases \ {c}
    /\ total_coroutines_num_' = OnCoroutineDestruction(total_coroutines_num_)
    /\ destroyed' = destroyed \cup {c}
    /\ UNCHANGED <<outside_pool, config_, monitor_state, resumed, registered,
                   initial_coroutines_, used_coroutines_,
                   idle_coroutines_num_, pc, coroutine_ptr, created, acquired,
                   releasers_peak>>

Next ==
    \/ Pool_StartMonitor
    \/ Pool_Populate
    \/ Pool_PopulateBadAlloc
    \/ Pool_PopulateEnqueueFail
    \/ Pool_Constructed
    \/ \E t \in Threads : GetCoroutine_TryUsed(t)
    \/ \E t \in Threads : GetCoroutine_TryInitial(t)
    \/ \E t \in Threads : GetCoroutine_DecIdle(t)
    \/ \E t \in Threads : CreateCoroutine_Construct(t)
    \/ \E t \in Threads : CreateCoroutine_BadAlloc(t)
    \/ \E t \in Threads : CreateCoroutine_IncTotal(t)
    \/ \E t \in Threads : CreateCoroutine_Register(t)
    \/ \E t \in Threads : GetCoroutine_Throw(t)
    \/ \E t \in Threads, c \in CoroIds : PutCoroutine_Check(t, c)
    \/ \E t \in Threads : PutCoroutine_Enqueue(t)
    \/ \E t \in Threads : PutCoroutine_EnqueueFail(t)
    \/ \E t \in Threads : PutCoroutine_IncIdle(t)
    \/ \E t \in Threads : CoroutinePtr_Destructor(t)
    \/ \E t \in Threads, c \in CoroIds : CoroutinePtr_Drop(t, c)

Spec == Init /\ [][Next]_vars

(* No call of the pool and no lease destructor is in progress. *)
Quiescent == \A t \in Threads : pc[t] = "idle"

(* Pool::Pool has returned. *)
Constructed == \A t \in Threads : pc[t] \notin
                   {"no_pool", "ctor_start", "ctor_loop", "ctor_throw",
                    "ctor_invariant"}

(***************************************************************************)
(* GetCoroutine with the catch block of CreateCoroutine step by step (in   *)
(* Spec it is one step, CreateCoroutine_BadAlloc): the constructor of the  *)
(* Coroutine throws std::bad_alloc with some errno, the handler tests      *)
(* errno == ENOMEM and logs, then rethrows. No failure at startup, no      *)
(* returns.                                                                *)
(***************************************************************************)
Errnos == {"ENOMEM", "EAGAIN"}

InitAllocFailure ==
    /\ PoolInit
    /\ FixupUnused
    /\ TokensUnused
    /\ MutexUnused
    /\ DumperUnused
    /\ StatsUnused
    /\ errno = [t \in Threads |-> "EAGAIN"]
    /\ log_errors = 0

(* Coroutine coroutine(stack_allocator_, executor_) throws std::bad_alloc,  *)
(* errno being e (set by the failed mmap, or left from before).            *)
CreateCoroutine_Throws(t, e) ==
    /\ pc[t] = "get_initial"
    /\ initial_coroutines_ = <<>>
    /\ log_errors < MaxLogErrors
    /\ errno' = [errno EXCEPT ![t] = e]
    /\ pc' = [pc EXCEPT ![t] = "create_catch"]
    /\ UNCHANGED <<outside_alloc, log_errors, config_, monitor_state, resumed,
                   registered, initial_coroutines_, used_coroutines_,
                   idle_coroutines_num_, total_coroutines_num_, coroutine_ptr,
                   leases, destroyed, created, acquired, releasers_peak>>

(* A handler that logs the diagnostic whatever errno is. *)
CreateCoroutine_Catch_LogAlways(t) ==
    /\ pc[t] = "create_catch"
    /\ log_errors' = log_errors + 1
    /\ pc' = [pc EXCEPT ![t] = "get_throw"]
    /\ UNCHANGED <<outside_alloc, errno, config_, monitor_state, resumed,
                   registered, initial_coroutines_, used_coroutines_,
                   idle_coroutines_num_, total_coroutines_num_, coroutine_ptr,
                   leases, destroyed, created, acquired, releasers_peak>>

(* catch (const std::bad_alloc&): if (errno == ENOMEM) LOG_ERROR() << ...;  *)
(* throw;                                                                   *)
CreateCoroutine_Catch(t) ==
    /\ pc[t] = "create_catch"
    /\ log_errors' = IF errno[t] = "ENOMEM" THEN log_errors + 1
                                              ELSE log_errors
    /\ pc' = [pc EXCEPT ![t] = "get_throw"]
    /\ UNCHANGED <<outside_alloc, errno, config_, monitor_state, resumed,
                   registered, initial_coroutines_, used_coroutines_,
                   idle_coroutines_num_, total_coroutines_num_, coroutine_ptr,
                   leases, destroyed, created, acquired, releasers_peak>>

NextAllocFailure ==
    \/ Pool_StartMonitor
    \/ Pool_Populate
    \/ Pool_Constructed
    \/ \E t \in Threads : GetCoroutine_TryUsed(t)
    \/ \E t \in Threads : GetCoroutine_TryInitial(t)
    \/ \E t \in Threads : GetCoroutine_DecIdle(t)
    \/ \E t \in Threads : CreateCoroutine_Construct(t)
    \/ \E t \in Threads : CreateCoroutine_IncTotal(t)
    \/ \E t \in Threads : CreateCoroutine_Register(t)
    \/ \E t \in Threads, e \in Errnos : CreateCoroutine_Throws(t, e)
    \/ \E t \in Threads : CreateCoroutine_Catch(t)
    \/ \E t \in Threads : GetCoroutine_Throw(t)

SpecAllocFailure == InitAllocFailure /\ [][NextAllocFailure]_vars

(***************************************************************************)
(* The construction of the pool next to the monitor's own thread: a        *)
(* running monitor samples the registered stacks every period and          *)
(* publishes the maximum usage it has observed, as a percentage (here a    *)
(* level from 0 to MaxStackUsagePct).                                      *)
(***************************************************************************)
StackUsageMonitor_Tick ==
    /\ monitor_active
    /\ registered # {}
    /\ \E pct \in 0..MaxStackUsagePct :
          /\ pct > max_stack_usage_pct
          /\ max_stack_usage_pct' = pct
    /\ UNCHANGED <<outside_pool, config_, resumed, registered, monitor_active,
                   initial_coroutines_, used_coroutines_,
                   idle_coroutines_num_, total_coroutines_num_, pc,
                   coroutine_ptr, leases, destroyed, created, acquired,
                   releasers_peak>>

NextMonitor ==
    \/ Pool_StartMonitor
    \/ Pool_Populate
    \/ Pool_PopulateBadAlloc
    \/ Pool_PopulateEnqueueFail
    \/ Pool_Constructed
    \/ StackUsageMonitor_Tick

SpecMonitor == Init /\ [][NextMonitor]_vars

(***************************************************************************)
(* The pool with the callers' use of their leases: CoroutinePtr::Get gives *)
(* the holder of a lease its Coroutine, which the holder may resume (the   *)
(* coroutine runs its body up to the next yield) or not.                   *)
(***************************************************************************)
(* A resume that reaches a coroutine wherever it is. *)
Coroutine_Resume_Any(t, c) ==
    /\ pc[t] = "idle"
    /\ c <= created
    /\ c \notin resumed
    /\ resumed' = resumed \cup {c}
    /\ UNCHANGED <<outside_pool, config_, monitor_state, registered,
                   initial_coroutines_, used_coroutines_,
                   idle_coroutines_num_, total_coroutines_num_, pc,
                   coroutine_ptr, leases, destroyed, created, acquired,
                   releasers_peak>>

(* The holder of lease c resumes its coroutine for the first time. *)
Coroutine_Resume(t, c) ==
    /\ pc[t] = "idle"
    /\ c \in leases
    /\ c \notin resumed
    /\ resumed' = resumed \cup {c}
    /\ UNCHANGED <<outside_pool, config_, monitor_state, registered,
                   initial_coroutines_, used_coroutines_,
                   idle_coroutines_num_, total_coroutines_num_, pc,
                   coroutine_ptr, leases, destroyed, created, acquired,
                   releasers_peak>>

NextLifecycle ==
    \/ Next
    \/ \E t \in Threads, c \in CoroIds : Coroutine_Resume(t, c)

SpecLifecycle == Init /\ [][NextLifecycle]_vars

(***************************************************************************)
(* Pool::~Pool() = default, run by the owner once nobody is inside a call  *)
(* and every lease is gone: the members are destroyed in reverse order of  *)
(* declaration, so used_coroutines_ and then initial_coroutines_ destroy   *)
(* the Coroutine objects they hold, and stack_usage_monitor_ stops. No     *)
(* thread has a pool afterwards.                                           *)
(***************************************************************************)
(* A destructor that destroys the warm queue's coroutines only. *)
Pool_Destructor_WarmOnly ==
    /\ Quiescent
    /\ leases = {}
    /\ destroyed' = destroyed \cup used_coroutines_
    /\ used_coroutines_' = {}
    /\ initial_coroutines_' = <<>>
    /\ monitor_active' = StackUsageMonitor_Stop
    /\ pc' = [t \in Threads |-> "no_pool"]
    /\ UNCHANGED <<outside_pool, config_, max_stack_usage_pct, resumed,
                   registered, idle_coroutines_num_, total_coroutines_num_,
                   coroutine_ptr, leases, created, acquired, releasers_peak>>

Pool_Destructor ==
    /\ Quiescent
    /\ leases = {}
    /\ destroyed' = destroyed \cup used_coroutines_ \cup
                        {initial_coroutines_[i] : i \in 1..InitialSize}
    /\ used_coroutines_' = {}
    /\ initial_coroutines_' = <<>>
    /\ monitor_active' = StackUsageMonitor_Stop
    /\ pc' = [t \in Threads |-> "no_pool"]
    /\ UNCHANGED <<outside_pool, config_, max_stack_usage_pct, resumed,
                   registered, idle_coroutines_num_, total_coroutines_num_,
                   coroutine_ptr, leases, created, acquired, releasers_peak>>

NextTeardown ==
    \/ Next
    \/ Pool_Destructor

SpecTeardown == Init /\ [][NextTeardown]_vars

(* The pool has been destroyed. *)
TornDown == \A t \in Threads : pc[t] = "no_pool"

(***************************************************************************)
(* The same destructor, one member per step.  The members are destroyed in *)
(* the reverse of their declaration order (stack_allocator_,               *)
(* stack_usage_monitor_, initial_coroutines_, used_coroutines_, the two    *)
(* counters): used_coroutines_ first, then initial_coroutines_, then       *)
(* stack_usage_monitor_, then stack_allocator_.  The counters and the      *)
(* allocator hold nothing the model observes.                              *)
(***************************************************************************)

(* ~used_coroutines_: the warm queue destroys the coroutines it holds. *)
Pool_Destructor_Used ==
    /\ Quiescent
    /\ leases = {}
    /\ destroyed' = destroyed \cup used_coroutines_
    /\ used_coroutines_' = {}
    /\ pc' = [t \in Threads |-> "dtor_initial"]
    /\ UNCHANGED <<outside_pool, config_, max_stack_usage_pct, resumed,
                   registered, idle_coroutines_num_, total_coroutines_num_,
                   coroutine_ptr, leases, created, acquired, releasers_peak,
                   initial_coroutines_, monitor_active>>

(* ~initial_coroutines_: the pristine queue destroys the coroutines it     *)
(* holds.                                                                  *)
Pool_Destructor_Initial ==
    /\ \A t \in Threads : pc[t] = "dtor_initial"
    /\ destroyed' = destroyed \cup
                        {initial_coroutines_[i] : i \in 1..InitialSize}
    /\ initial_coroutines_' = <<>>
    /\ pc' = [t \in Threads |-> "dtor_monitor"]
    /\ UNCHANGED <<outside_pool, config_, max_stack_usage_pct, resumed,
                   registered, idle_coroutines_num_, total_coroutines_num_,
                   coroutine_ptr, leases, created, acquired, releasers_peak,
                   used_coroutines_, monitor_active>>

(* ~stack_usage_monitor_: the monitor is stopped. *)
Pool_Destructor_Monitor ==
    /\ \A t \in Threads : pc[t] = "dtor_monitor"
    /\ monitor_active' = StackUsageMonitor_Stop
    /\ pc' = [t \in Threads |-> "no_pool"]
    /\ UNCHANGED <<outside_pool, config_, max_stack_usage_pct, resumed,
                   registered, idle_coroutines_num_, total_coroutines_num_,
                   coroutine_ptr, leases, created, acquired, releasers_peak,
                   used_coroutines_, initial_coroutines_, destroyed>>

NextTeardownOrder ==
    \/ Next
    \/ Pool_Destructor_Used
    \/ Pool_Destructor_Initial
    \/ Pool_Destructor_Monitor

SpecTeardownOrder == Init /\ [][NextTeardownOrder]_vars

(***************************************************************************)
(* Two pools of the same Task type, used by the same threads, one whole    *)
(* call per step. GetUsedPoolToken<Token>() holds a function-local         *)
(* thread_local Token, constructed from used_coroutines_ of the pool on    *)
(* which the thread first calls it; every later call on that thread, on    *)
(* either pool, gets the same token. enqueue(token, item) puts the item    *)
(* into the token's own producer, a sub-queue of the queue the token was   *)
(* constructed from. try_dequeue(token, item) with a token of another      *)
(* queue is outside ConcurrentQueue's contract: it follows the producers   *)
(* the token remembers or the producers of the queue it is called on, or   *)
(* finds nothing.                                                          *)
(***************************************************************************)
Pools == {"P1", "P2"}

(* The coroutines pool p can construct: the first at startup. *)
CorosOf(p) == {<<p, 1>>, <<p, 2>>}

TokensConfig == [initial_size |-> 1, max_size |-> 2]

NoToken == "no_token"

InitTokens ==
    /\ used_of = [p \in Pools |-> {}]
    /\ initial_of = [p \in Pools |-> {<<p, 1>>}]
    /\ idle_of = [p \in Pools |-> TokensConfig.initial_size]
    /\ total_of = [p \in Pools |-> TokensConfig.initial_size]
    /\ leases_of = {}
    /\ created_of = [p \in Pools |-> {<<p, 1>>}]
    /\ producer_token = [t \in Threads |-> NoToken]
    /\ consumer_token = [t \in Threads |-> NoToken]
    /\ PoolUnused
    /\ FixupUnused
    /\ AllocUnused
    /\ MutexUnused
    /\ DumperUnused
    /\ StatsUnused

(* A token that every call makes anew from the queue of the pool called. *)
GetUsedPoolToken_PerCall(token, t, p) == [token EXCEPT ![t] = p]

(* thread_local Token token(used_coroutines_); return token;               *)
(* The initialiser runs on the thread's first call only.                   *)
GetUsedPoolToken(token, t, p) ==
    IF token[t] = NoToken THEN [token EXCEPT ![t] = p] ELSE token

(* The queues try_dequeue(token, mover) of pool p may take an item from. *)
DequeueSources(token, t, p) == {p, token[t]}

(* Pool::GetCoroutine on pool p: a hit on a warm queue, or a hit on p's    *)
(* pristine queue, or CreateCoroutine.                                     *)
Tokens_GetCoroutine(t, p) ==
    LET tok == GetUsedPoolToken(consumer_token, t, p) IN
    /\ consumer_token' = tok
    /\ \/ \E q \in DequeueSources(tok, t, p) : \E c \in used_of[q] :
            /\ used_of' = [used_of EXCEPT ![q] = Dequeued(@, c)]
            /\ idle_of' = [idle_of EXCEPT ![p] = AtomicDec(@)]
            /\ leases_of' = leases_of \cup {<<c, p>>}
            /\ UNCHANGED <<initial_of, total_of, created_of>>
       \/ /\ used_of[p] = {} \/ tok[t] # p
          /\ IF initial_of[p] # {}
             THEN \E c \in initial_of[p] :
                  /\ initial_of' = [initial_of EXCEPT ![p] = @ \ {c}]
                  /\ idle_of' = [idle_of EXCEPT ![p] = AtomicDec(@)]
                  /\ leases_of' = leases_of \cup {<<c, p>>}
                  /\ UNCHANGED <<used_of, total_of, created_of>>
             ELSE \E c \in CorosOf(p) \ created_of[p] :
                  /\ created_of' = [created_of EXCEPT ![p] = @ \cup {c}]
                  /\ total_of' = [total_of EXCEPT ![p] = AtomicInc(@)]
                  /\ leases_of' = leases_of \cup {<<c, p>>}
                  /\ UNCHANGED <<used_of, initial_of, idle_of>>
    /\ UNCHANGED <<outside_tokens, producer_token>>

(* CoroutinePtr::ReturnToPool -> pool_->PutCoroutine on the lease <<c, p>>, *)
(* and the lease's destructor: over the ceiling, or when enqueue gives     *)
(* false, the coroutine is destroyed and counted out of p.                 *)
Tokens_PutCoroutine(t, c, p) ==
    /\ <<c, p>> \in leases_of
    /\ leases_of' = leases_of \ {<<c, p>>}
    /\ IF CeilingReached(idle_of[p], TokensConfig.max_size)
       THEN /\ total_of' = [total_of EXCEPT ![p] = OnCoroutineDestruction(@)]
            /\ UNCHANGED <<used_of, idle_of, producer_token>>
       ELSE LET tok == GetUsedPoolToken(producer_token, t, p) IN
            /\ producer_token' = tok
            /\ \/ /\ used_of' = [used_of EXCEPT ![tok[t]] = Enqueued(@, c)]
                  /\ idle_of' = [idle_of EXCEPT ![p] = AtomicInc(@)]
                  /\ UNCHANGED total_of
               \/ /\ total_of' = [total_of EXCEPT
                                      ![p] = OnCoroutineDestruction(@)]
                  /\ UNCHANGED <<used_of, idle_of>>
    /\ UNCHANGED <<outside_tokens, initial_of, created_of, consumer_token>>

NextTokens ==
    \/ \E t \in Threads, p \in Pools : Tokens_GetCoroutine(t, p)
    \/ \E t \in Threads, p \in Pools :
           \E c \in UNION {CorosOf(q) : q \in Pools} :
               Tokens_PutCoroutine(t, c, p)

SpecTokens == InitTokens /\ [][NextTokens]_vars

(***************************************************************************)
(* engine::Mutex (and engine::SharedMutex locked exclusively), as the      *)
(* tests of mutex_test.cpp use it: tasks that each make one call on the    *)
(* same mutex - lock(), try_lock(), try_lock_for()/try_lock_until() - and  *)
(* unlock it when the std::unique_lock or std::lock_guard goes out of      *)
(* scope. A task ends "done" after it held the mutex, "failed" when its    *)
(* try-lock gave false. Another task may request its cancellation at any   *)
(* time before it ends. lock() takes no notice of a cancellation request;  *)
(* what a timed try-lock does with one is left open.                       *)
(***************************************************************************)
Tasks == 1..NTasks

NoTask == 0

InitMutex ==
    /\ mutex_owner = NoTask
    /\ task_at = [k \in Tasks |-> "start"]
    /\ cancel_requested = [k \in Tasks |-> FALSE]
    /\ deadline_reached = [k \in Tasks |-> FALSE]
    /\ PoolUnused
    /\ FixupUnused
    /\ AllocUnused
    /\ TokensUnused
    /\ DumperUnused
    /\ StatsUnused

(* mutex.lock(): taken at once when free, else the task waits. *)
Mutex_lock(k) ==
    /\ task_at[k] = "start"
    /\ IF mutex_owner = NoTask
       THEN /\ mutex_owner' = k
            /\ task_at' = [task_at EXCEPT ![k] = "holding"]
       ELSE /\ task_at' = [task_at EXCEPT ![k] = "lock_wait"]
            /\ UNCHANGED mutex_owner
    /\ UNCHANGED <<outside_mutex, cancel_requested, deadline_reached>>

(* A lock() that gives up when the task's cancellation was requested. *)
Mutex_lock_Wake_Cancellable(k) ==
    /\ task_at[k] = "lock_wait"
    /\ IF cancel_requested[k]
       THEN /\ task_at' = [task_at EXCEPT ![k] = "failed"]
            /\ UNCHANGED mutex_owner
       ELSE /\ mutex_owner = NoTask
            /\ mutex_owner' = k
            /\ task_at' = [task_at EXCEPT ![k] = "holding"]
    /\ UNCHANGED <<outside_mutex, cancel_requested, deadline_reached>>

(* The waiter in lock() is woken by an unlock and takes the mutex. *)
Mutex_lock_Wake(k) ==
    /\ task_at[k] = "lock_wait"
    /\ mutex_owner = NoTask
    /\ mutex_owner' = k
    /\ task_at' = [task_at EXCEPT ![k] = "holding"]
    /\ UNCHANGED <<outside_mutex, cancel_requested, deadline_reached>>

(* mutex.try_lock(): true and the mutex when free, else false at once. *)
Mutex_try_lock(k) ==
    /\ task_at[k] = "start"
    /\ IF mutex_owner = NoTask
       THEN /\ mutex_owner' = k
            /\ task_at' = [task_at EXCEPT ![k] = "holding"]
       ELSE /\ task_at' = [task_at EXCEPT ![k] = "failed"]
            /\ UNCHANGED mutex_owner
    /\ UNCHANGED <<outside_mutex, cancel_requested, deadline_reached>>

(* mutex.try_lock_until(deadline), and try_lock_for(d) with deadline       *)
(* now + d: taken at once when free, whether or not the deadline has       *)
(* passed already (expired); else the task waits.                          *)
Mutex_try_lock_until(k, expired) ==
    /\ task_at[k] = "start"
    /\ IF mutex_owner = NoTask
       THEN /\ mutex_owner' = k
            /\ task_at' = [task_at EXCEPT ![k] = "holding"]
            /\ UNCHANGED deadline_reached
       ELSE /\ task_at' = [task_at EXCEPT ![k] = "try_wait"]
            /\ deadline_reached' = [deadline_reached EXCEPT ![k] = expired]
            /\ UNCHANGED mutex_owner
    /\ UNCHANGED <<outside_mutex, cancel_requested>>

(* The deadline of a waiting try-lock passes. *)
Deadline_Reached(k) ==
    /\ task_at[k] = "try_wait"
    /\ ~deadline_reached[k]
    /\ deadline_reached' = [deadline_reached EXCEPT ![k] = TRUE]
    /\ UNCHANGED <<outside_mutex, mutex_owner, task_at, cancel_requested>>

(* The waiter in a timed try-lock is woken by an unlock and takes the mutex. *)
Mutex_try_lock_Wake(k) ==
    /\ task_at[k] = "try_wait"
    /\ mutex_owner = NoTask
    /\ mutex_owner' = k
    /\ task_at' = [task_at EXCEPT ![k] = "holding"]
    /\ UNCHANGED <<outside_mutex, cancel_requested, deadline_reached>>

(* A timed try-lock that gives false before its deadline. *)
Mutex_try_lock_Timeout_Early(k) ==
    /\ task_at[k] = "try_wait"
    /\ task_at' = [task_at EXCEPT ![k] = "failed"]
    /\ UNCHANGED <<outside_mutex, mutex_owner, cancel_requested,
                   deadline_reached>>

(* The waiter in a timed try-lock is woken by its deadline: false. *)
Mutex_try_lock_Timeout(k) ==
    /\ task_at[k] = "try_wait"
    /\ deadline_reached[k]
    /\ task_at' = [task_at EXCEPT ![k] = "failed"]
    /\ UNCHANGED <<outside_mutex, mutex_owner, cancel_requested,
                   deadline_reached>>

(* A cancelled waiter in a timed try-lock may give false as well. *)
Mutex_try_lock_Cancelled(k) ==
    /\ task_at[k] = "try_wait"
    /\ cancel_requested[k]
    /\ task_at' = [task_at EXCEPT ![k] = "failed"]
    /\ UNCHANGED <<outside_mutex, mutex_owner, cancel_requested,
                   deadline_reached>>

(* mutex.unlock() by the destructor of the lock object; the task ends. *)
Mutex_unlock(k) ==
    /\ task_at[k] = "holding"
    /\ mutex_owner = k
    /\ mutex_owner' = NoTask
    /\ task_at' = [task_at EXCEPT ![k] = "done"]
    /\ UNCHANGED <<outside_mutex, cancel_requested, deadline_reached>>

(* task.RequestCancel() on a task that has not ended. *)
Task_RequestCancel(k) ==
    /\ task_at[k] \notin {"done", "failed"}
    /\ ~cancel_requested[k]
    /\ cancel_requested' = [cancel_requested EXCEPT ![k] = TRUE]
    /\ UNCHANGED <<outside_mutex, mutex_owner, task_at, deadline_reached>>

(* What the scheduler does for task k once it can run. *)
TaskRuns(k) ==
    \/ Mutex_lock_Wake(k)
    \/ Mutex_try_lock_Wake(k)
    \/ Mutex_try_lock_Timeout(k)
    \/ Mutex_unlock(k)

NextMutex ==
    \/ \E k \in Tasks : Mutex_lock(k)
    \/ \E k \in Tasks : Mutex_lock_Wake(k)
    \/ \E k \in Tasks : Mutex_try_lock(k)
    \/ \E k \in Tasks, expired \in BOOLEAN : Mutex_try_lock_until(k, expired)
    \/ \E k \in Tasks : Deadline_Reached(k)
    \/ \E k \in Tasks : Mutex_try_lock_Wake(k)
    \/ \E k \in Tasks : Mutex_try_lock_Timeout(k)
    \/ \E k \in Tasks : Mutex_try_lock_Cancelled(k)
    \/ \E k \in Tasks : Mutex_unlock(k)
    \/ \E k \in Tasks : Task_RequestCancel(k)

(* A task that can run is run: the task processor leaves no ready task     *)
(* waiting for ever.                                                       *)
SpecMutex ==
    /\ InitMutex
    /\ [][NextMutex]_vars
    /\ \A k \in Tasks : WF_vars(TaskRuns(k))

(***************************************************************************)
(* dump::Dumper as the test ThreadSafety of dumper_test.cpp uses it: tasks *)
(* call OnUpdateCompleted, WriteDumpAsync, ReadDumpDebug and               *)
(* WriteDumpSyncDebug on one Dumper over and over. The Dumper serialises   *)
(* the last three under a mutex of its own and writes in a separate dump   *)
(* task, of which there is at most one; reading, and a synchronous write,  *)
(* first cancel and await the dump task. DummyEntity::GetAndWrite and      *)
(* ReadAndSet take DummyEntity::mutex with std::try_to_lock and assert     *)
(* that they own it.                                                       *)
(***************************************************************************)
(* The dump task, next to the callers Tasks. *)
DumpTask == NTasks + 1

InitDumper ==
    /\ dumper_mutex = NoTask
    /\ dump_task = "none"
    /\ caller_at = [k \in Tasks |-> "idle"]
    /\ entity_mutex = NoTask
    /\ try_lock_failed = FALSE
    /\ updated = FALSE
    /\ write_count = 0
    /\ read_count = 0
    /\ PoolUnused
    /\ FixupUnused
    /\ AllocUnused
    /\ TokensUnused
    /\ MutexUnused
    /\ StatsUnused

(* std::unique_lock lock(mutex, std::try_to_lock) by who: the holder after. *)
TryToLock(holder, who) == IF holder = NoTask THEN who ELSE holder

(* ASSERT_TRUE(lock.owns_lock()) *)
OwnsLock(holder, who) == holder = who

(* dumper.OnUpdateCompleted(Now(), has_changes) *)
Dumper_OnUpdateCompleted(k, has_changes) ==
    /\ caller_at[k] = "idle"
    /\ updated' = (updated \/ has_changes)
    /\ UNCHANGED <<outside_dumper, write_count, read_count, dumper_mutex, dump_task, caller_at,
                   entity_mutex, try_lock_failed>>

(* dumper.WriteDumpAsync(): under the Dumper's mutex, start a dump task    *)
(* unless one is still under way.                                          *)
Dumper_WriteDumpAsync(k) ==
    /\ caller_at[k] = "idle"
    /\ dumper_mutex = NoTask
    /\ dump_task' = IF dump_task \in {"running", "writing"}
                    THEN dump_task ELSE "running"
    /\ UNCHANGED <<outside_dumper, write_count, read_count, dumper_mutex, caller_at, entity_mutex,
                   try_lock_failed, updated>>

(* The dump task runs: with an update to dump it calls GetAndWrite, which  *)
(* try-locks the entity; with none it only renames the last dump.          *)
DumpTask_Run ==
    /\ dump_task = "running"
    /\ IF updated
       THEN /\ write_count < MaxCount
            /\ entity_mutex' = TryToLock(entity_mutex, DumpTask)
            /\ try_lock_failed' =
                  (try_lock_failed \/ ~OwnsLock(entity_mutex', DumpTask))
            /\ dump_task' = "writing"
            /\ updated' = FALSE
       ELSE /\ dump_task' = "finished"
            /\ UNCHANGED <<entity_mutex, try_lock_failed, updated>>
    /\ UNCHANGED <<outside_dumper, write_count, read_count, dumper_mutex, caller_at>>

(* GetAndWrite returns (its lock is released) and the dump task ends. *)
DumpTask_Finish ==
    /\ dump_task = "writing"
    /\ entity_mutex' = IF entity_mutex = DumpTask THEN NoTask ELSE entity_mutex
    /\ dump_task' = "finished"
    /\ write_count' = write_count + 1
    /\ UNCHANGED <<outside_dumper, read_count, dumper_mutex, caller_at, try_lock_failed,
                   updated>>

(* dumper.ReadDumpDebug() / dumper.WriteDumpSyncDebug(): the Dumper's      *)
(* mutex is taken.                                                         *)
Dumper_Lock(k, op) ==
    /\ caller_at[k] = "idle"
    /\ dumper_mutex = NoTask
    /\ dumper_mutex' = k
    /\ caller_at' = [caller_at EXCEPT ![k] = op]
    /\ UNCHANGED <<outside_dumper, write_count, read_count, dump_task, entity_mutex, try_lock_failed,
                   updated>>

(* A ReadDumpDebug that reads without awaiting the dump task. *)
Dumper_ReadDumpDebug_Read_NoWait(k) ==
    /\ caller_at[k] = "read_wait"
    /\ read_count < MaxCount
    /\ entity_mutex' = TryToLock(entity_mutex, k)
    /\ try_lock_failed' = (try_lock_failed \/ ~OwnsLock(entity_mutex', k))
    /\ caller_at' = [caller_at EXCEPT ![k] = "reading"]
    /\ UNCHANGED <<outside_dumper, write_count, read_count, dumper_mutex, dump_task, updated>>

(* ReadDumpDebug: the dump task is cancelled and awaited (one that has not *)
(* run yet never runs), then ReadAndSet try-locks the entity.              *)
Dumper_ReadDumpDebug_Read(k) ==
    /\ caller_at[k] = "read_wait"
    /\ read_count < MaxCount
    /\ dump_task # "writing"
    /\ dump_task' = IF dump_task = "running" THEN "finished" ELSE dump_task
    /\ entity_mutex' = TryToLock(entity_mutex, k)
    /\ try_lock_failed' = (try_lock_failed \/ ~OwnsLock(entity_mutex', k))
    /\ caller_at' = [caller_at EXCEPT ![k] = "reading"]
    /\ UNCHANGED <<outside_dumper, write_count, read_count, dumper_mutex, updated>>

(* ReadAndSet returns (its lock is released), and ReadDumpDebug too. *)
Dumper_ReadDumpDebug_Return(k) ==
    /\ caller_at[k] = "reading"
    /\ entity_mutex' = IF entity_mutex = k THEN NoTask ELSE entity_mutex
    /\ dumper_mutex' = NoTask
    /\ read_count' = read_count + 1
    /\ caller_at' = [caller_at EXCEPT ![k] = "idle"]
    /\ UNCHANGED <<outside_dumper, write_count, dump_task, try_lock_failed, updated>>

(* WriteDumpSyncDebug: the dump task is cancelled and awaited, and a new   *)
(* one is started.                                                         *)
Dumper_WriteDumpSyncDebug_Start(k) ==
    /\ caller_at[k] = "sync_wait"
    /\ dump_task # "writing"
    /\ dump_task' = "running"
    /\ caller_at' = [caller_at EXCEPT ![k] = "sync_join"]
    /\ UNCHANGED <<outside_dumper, write_count, read_count, dumper_mutex, entity_mutex,
                   try_lock_failed, updated>>

(* WriteDumpSyncDebug returns once its dump task has ended. *)
Dumper_WriteDumpSyncDebug_Return(k) ==
    /\ caller_at[k] = "sync_join"
    /\ dump_task = "finished"
    /\ dumper_mutex' = NoTask
    /\ caller_at' = [caller_at EXCEPT ![k] = "idle"]
    /\ UNCHANGED <<outside_dumper, write_count, read_count, dump_task, entity_mutex, try_lock_failed,
                   updated>>

NextDumper ==
    \/ \E k \in Tasks, has_changes \in BOOLEAN :
           Dumper_OnUpdateCompleted(k, has_changes)
    \/ \E k \in Tasks : Dumper_WriteDumpAsync(k)
    \/ DumpTask_Run
    \/ DumpTask_Finish
    \/ \E k \in Tasks, op \in {"read_wait", "sync_wait"} : Dumper_Lock(k, op)
    \/ \E k \in Tasks : Dumper_ReadDumpDebug_Read(k)
    \/ \E k \in Tasks : Dumper_ReadDumpDebug_Return(k)
    \/ \E k \in Tasks : Dumper_WriteDumpSyncDebug_Start(k)
    \/ \E k \in Tasks : Dumper_WriteDumpSyncDebug_Return(k)

SpecDumper == InitDumper /\ [][NextDumper]_vars

(***************************************************************************)
(* Sequential use with no failing allocation: a pool constructed with      *)
(* 1 <= initial_size <= max_size, then acquire-then-ReturnToPool pairs, one *)
(* call at a time.                                                          *)
(***************************************************************************)
InitRecirculation ==
    /\ Init
    /\ 1 <= config_.initial_size
    /\ config_.initial_size <= config_.max_size

NextRecirculation ==
    \/ Pool_StartMonitor
    \/ Pool_Populate
    \/ Pool_Constructed
    \/ \E t \in Threads : Quiescent /\ leases = {} /\ GetCoroutine_TryUsed(t)
    \/ \E t \in Threads : GetCoroutine_TryInitial(t)
    \/ \E t \in Threads : GetCoroutine_DecIdle(t)
    \/ \E t \in Threads, c \in CoroIds : PutCoroutine_Check(t, c)
    \/ \E t \in Threads : PutCoroutine_Enqueue(t)
    \/ \E t \in Threads : PutCoroutine_IncIdle(t)

SpecRecirculation == InitRecirculation /\ [][NextRecirculation]_vars

(***************************************************************************)
(* A single-threaded run: a pool constructed with initial_size <= max_size *)
(* and used by the constructing thread alone, leases held for any time,    *)
(* failing allocations and enqueues included.                              *)
(***************************************************************************)
InitSingleThread ==
    /\ Init
    /\ config_.initial_size <= config_.max_size

NextSingleThread ==
    \/ Pool_StartMonitor
    \/ Pool_Populate
    \/ Pool_Constructed
    \/ GetCoroutine_TryUsed(Constructor)
    \/ GetCoroutine_TryInitial(Constructor)
    \/ GetCoroutine_DecIdle(Constructor)
    \/ CreateCoroutine_Construct(Constructor)
    \/ CreateCoroutine_BadAlloc(Constructor)
    \/ CreateCoroutine_IncTotal(Constructor)
    \/ CreateCoroutine_Register(Constructor)
    \/ GetCoroutine_Throw(Constructor)
    \/ \E c \in CoroIds : PutCoroutine_Check(Constructor, c)
    \/ PutCoroutine_Enqueue(Constructor)
    \/ PutCoroutine_EnqueueFail(Constructor)
    \/ PutCoroutine_IncIdle(Constructor)
    \/ CoroutinePtr_Destructor(Constructor)
    \/ \E c \in CoroIds : CoroutinePtr_Drop(Constructor, c)

SpecSingleThread == InitSingleThread /\ [][NextSingleThread]_vars

(***************************************************************************)
(* Pool::GetStats called from one thread while another thread acquires and *)
(* releases coroutines.  GetStats takes no lock: each of its loads is a    *)
(* step of its own, and the three operands of the subtraction are loaded   *)
(* in an order the language leaves open.                                   *)
(***************************************************************************)
StatsOperands == {"total", "used", "initial"}

(* PoolStats stats; *)
DefaultPoolStats ==
    [active_coroutines |-> 0, total_coroutines |-> 0,
     max_stack_usage_pct |-> 0, is_stack_usage_monitor_active |-> FALSE]

InitStats ==
    /\ PoolInit
    /\ FixupUnused
    /\ AllocUnused
    /\ TokensUnused
    /\ MutexUnused
    /\ DumperUnused
    /\ stats_pc = "idle"
    /\ stats_reads = <<>>
    /\ stats = DefaultPoolStats

(* GetStats is entered; the pool exists. *)
GetStats_Call ==
    /\ stats_pc \in {"idle", "returned"}
    /\ Constructed
    /\ stats_pc' = "loading"
    /\ stats_reads' = <<>>
    /\ stats' = DefaultPoolStats
    /\ UNCHANGED outside_stats

(* What one load of GetStats gives at the moment it is made. *)
GetStats_Operand(which) ==
    CASE which = "total" -> total_coroutines_num_
      [] which = "used" -> UsedSize
      [] which = "initial" -> InitialSize

(* total_coroutines_num_.load(), used_coroutines_.size_approx() or         *)
(* initial_coroutines_.size_approx().                                      *)
GetStats_Load(which) ==
    /\ stats_pc = "loading"
    /\ which \notin DOMAIN stats_reads
    /\ stats_reads' = (which :> GetStats_Operand(which)) @@ stats_reads
    /\ UNCHANGED <<stats_pc, stats, outside_stats>>

(* The subtraction, then the second load of total_coroutines_num_ for      *)
(* std::max, the monitor's two fields, and the return.                     *)
GetStats_Return ==
    /\ stats_pc = "loading"
    /\ DOMAIN stats_reads = StatsOperands
    /\ LET active == GetStats_active(stats_reads["total"],
                         stats_reads["used"], stats_reads["initial"])
       IN stats' =
              [active_coroutines |-> active,
               total_coroutines |->
                   GetStats_total(total_coroutines_num_, active),
               max_stack_usage_pct |-> max_stack_usage_pct,
               is_stack_usage_monitor_active |-> monitor_active]
    /\ stats_pc' = "returned"
    /\ UNCHANGED <<stats_reads, outside_stats>>

NextStats ==
    \/ NextSingleThread
    \/ GetStats_Call
    \/ \E which \in StatsOperands : GetStats_Load(which)
    \/ GetStats_Return

SpecStats == InitStats /\ [][NextStats]_vars

(***************************************************************************)
(* A burst with no failing allocation: on a pool with initial_size <=      *)
(* max_size < NThreads, NThreads acquires run concurrently until every     *)
(* one holds its lease, then the NThreads leases are returned concurrently *)
(* with ReturnToPool.                                                      *)
(***************************************************************************)
InGet(t) == pc[t] \in {"get_initial", "get_dec", "create_inc", "create_reg"}

InitBurst ==
    /\ Init
    /\ config_.initial_size <= config_.max_size
    /\ config_.max_size < NThreads

(* An acquire of the burst may start: no release has begun, and fewer than *)
(* NThreads acquires have started.                                         *)
BurstAcquire(t) ==
    /\ leases = acquired
    /\ \A u \in Threads : pc[u] # "lease_dtor" /\ ~InPut(u)
    /\ Cardinality(acquired) + Cardinality({u \in Threads : InGet(u)})
           < NThreads
    /\ GetCoroutine_TryUsed(t)

(* A release of the burst may start: every acquire has returned its lease. *)
BurstRelease(t, c) ==
    /\ Cardinality(acquired) = NThreads
    /\ PutCoroutine_Check(t, c)

NextBurst ==
    \/ Pool_StartMonitor
    \/ Pool_Populate
    \/ Pool_Constructed
    \/ \E t \in Threads : BurstAcquire(t)
    \/ \E t \in Threads : GetCoroutine_TryInitial(t)
    \/ \E t \in Threads : GetCoroutine_DecIdle(t)
    \/ \E t \in Threads : CreateCoroutine_Construct(t)
    \/ \E t \in Threads : CreateCoroutine_IncTotal(t)
    \/ \E t \in Threads : CreateCoroutine_Register(t)
    \/ \E t \in Threads, c \in CoroIds : BurstRelease(t, c)
    \/ \E t \in Threads : PutCoroutine_Enqueue(t)
    \/ \E t \in Threads : PutCoroutine_IncIdle(t)
    \/ \E t \in Threads : CoroutinePtr_Destructor(t)

SpecBurst == InitBurst /\ [][NextBurst]_vars

(* The burst is over: every lease has been returned, every call has ended. *)
BurstOver ==
    /\ Quiescent
    /\ Cardinality(acquired) = NThreads
    /\ leases = {}

(***************************************************************************)
(* Properties                                                              *)
(***************************************************************************)
(* Handles that a call in progress holds (GetCoroutine's local `coroutine`, *)
(* or the lease PutCoroutine or the destructor is working on).              *)
HeldInCall == {coroutine_ptr[t] : t \in Threads} \ {Null}

(* In how many places coroutine c is: queue slots, leases, calls, destroyed. *)
Occurrences(c) ==
    Cardinality({i \in 1..Len(initial_coroutines_) : initial_coroutines_[i] = c})
    + (IF c \in used_coroutines_ THEN 1 ELSE 0)
    + Cardinality({t \in Threads : coroutine_ptr[t] = c})
    + (IF c \in leases THEN 1 ELSE 0)
    + (IF c \in destroyed THEN 1 ELSE 0)

(* C1: at every quiescent point total_coroutines_num_ is the number of      *)
(* coroutines in the pristine queue plus the number in the warm queue plus  *)
(* the number of outstanding leases.                                        *)
C1_TotalIsPopulation ==
    Quiescent =>
        total_coroutines_num_ = InitialSize + UsedSize + Cardinality(leases)

C1_Witness ==
    /\ Quiescent
    /\ UsedSize >= 1
    /\ leases # {}
    /\ destroyed # {}
    /\ created > config_.initial_size

(* C2: in every state each coroutine is in at most one place: a slot of the *)
(* pristine queue, a slot of the warm queue, a lease (outstanding or inside *)
(* a call), or destroyed.                                                   *)
C2_OnePlace == \A c \in CoroIds : Occurrences(c) <= 1

C2_Witness ==
    /\ used_coroutines_ # {}
    /\ leases # {}
    /\ \E t \in Threads : pc[t] = "get_dec" /\ coroutine_ptr[t] # Null

(* C3: no coroutine is lost: every coroutine handed out by GetCoroutine and *)
(* not destroyed is in the warm queue, in an outstanding lease or in the    *)
(* hands of a call in progress; at a quiescent point the handed out minus   *)
(* the destroyed are exactly the warm queue's plus the outstanding leases'. *)
C3_NoLoss ==
    /\ (acquired \ destroyed) \subseteq (used_coroutines_ \cup leases \cup HeldInCall)
    /\ Quiescent => (acquired \ destroyed) = (used_coroutines_ \cup leases)

C3_Witness ==
    /\ Quiescent
    /\ used_coroutines_ # {}
    /\ leases # {}
    /\ acquired \cap destroyed # {}

C5_IdleCounterCeiling ==
    config_.initial_size <= config_.max_size =>
        idle_coroutines_num_ <= config_.max_size + releasers_peak

C7_FailedGetChangesNothing ==
    [][\A t \in Threads :
        /\ (\/ pc[t] = "idle" /\ pc'[t] = "get_initial"
            \/ pc[t] = "get_initial" /\ pc'[t] = "get_throw"
            \/ pc[t] = "get_throw" /\ pc'[t] # "get_throw")
           => /\ UNCHANGED <<total_coroutines_num_, idle_coroutines_num_,
                             initial_coroutines_, used_coroutines_,
                             leases, destroyed, created>>
              /\ coroutine_ptr'[t] = Null
        /\ pc[t] = "get_throw" => pc'[t] \in {"get_throw", "idle"}
        /\ pc[t] = "get_throw" =>
              \A u \in Threads :
                  pc[u] = "put_enqueue" /\ pc'[u] = "put_inc" =>
                      used_coroutines_' =
                          used_coroutines_ \cup {coroutine_ptr[u]}]_vars

(* A GetCoroutine has failed and another caller's coroutine is enqueued. *)
C7_Witness ==
    \E t, u \in Threads :
        /\ pc[t] = "get_throw"
        /\ pc[u] = "put_inc"
        /\ used_coroutines_ # {}

(* C8: a ReturnToPool that does not enqueue (ceiling reached, or enqueue     *)
(* failed) changes neither counter nor queue and leaves the coroutine in the *)
(* lease; the lease's destructor then destroys the coroutine and takes       *)
(* exactly one from total_coroutines_num_, idle_coroutines_num_ and both     *)
(* queues unchanged.                                                         *)
C8_RejectedReturnIsDestroyed ==
    [][\A t \in Threads :
        /\ pc[t] \in {"idle", "put_enqueue"} /\ pc'[t] = "lease_dtor"
           => /\ coroutine_ptr'[t] # Null
              /\ coroutine_ptr'[t] \notin used_coroutines_'
              /\ UNCHANGED <<total_coroutines_num_, idle_coroutines_num_,
                             initial_coroutines_, used_coroutines_, destroyed>>
        /\ pc[t] = "lease_dtor" /\ coroutine_ptr[t] # Null
           => /\ pc'[t] \in {"lease_dtor", "idle"}
              /\ pc'[t] = "idle" =>
                    /\ total_coroutines_num_' + 1 = total_coroutines_num_
                    /\ destroyed' = destroyed \cup {coroutine_ptr[t]}
                    /\ UNCHANGED <<idle_coroutines_num_, initial_coroutines_,
                                   used_coroutines_, leases>>]_vars

(* A rejected lease is about to be destroyed, the ceiling being reached. *)
C8_Witness ==
    \E t \in Threads :
        /\ pc[t] = "lease_dtor"
        /\ coroutine_ptr[t] # Null
        /\ idle_coroutines_num_ >= config_.max_size
        /\ config_.max_size >= 1

(* C9: a ReturnToPool that succeeds passed the check with                    *)
(* idle_coroutines_num_ < max_size; its enqueue appends the coroutine to the *)
(* warm queue and empties the lease; its increment adds exactly one to       *)
(* idle_coroutines_num_ (a SizeBits-wide unsigned counter); the destruction  *)
(* of the emptied lease, on return, changes nothing; the pristine queue and  *)
(* total_coroutines_num_ are unchanged all along.                            *)
C9_SuccessfulReturn ==
    [][\A t \in Threads :
        /\ pc[t] = "idle" /\ pc'[t] = "put_enqueue"
           => /\ idle_coroutines_num_ < config_.max_size
              /\ UNCHANGED <<total_coroutines_num_, idle_coroutines_num_,
                             initial_coroutines_, used_coroutines_, destroyed>>
        /\ pc[t] = "put_enqueue" /\ pc'[t] = "put_inc"
           => /\ coroutine_ptr[t] \notin used_coroutines_
              /\ used_coroutines_' = used_coroutines_ \cup {coroutine_ptr[t]}
              /\ coroutine_ptr'[t] = Null
              /\ UNCHANGED <<total_coroutines_num_, idle_coroutines_num_,
                             initial_coroutines_, destroyed>>
        /\ pc[t] = "put_inc" /\ pc'[t] # "put_inc"
           => /\ pc'[t] = "idle"
              /\ coroutine_ptr[t] = Null
              /\ idle_coroutines_num_' = (idle_coroutines_num_ + 1) % SizeModulus
              /\ UNCHANGED <<total_coroutines_num_, initial_coroutines_,
                             used_coroutines_, destroyed, leases>>]_vars

(* Returns have succeeded and nothing was ever destroyed: every coroutine *)
(* made is idle in a queue and counted.                                   *)
C9_Witness ==
    /\ Quiescent
    /\ UsedSize >= 2
    /\ destroyed = {}
    /\ leases = {}
    /\ idle_coroutines_num_ = UsedSize + InitialSize
    /\ total_coroutines_num_ = UsedSize + InitialSize

(* C10: the destructor of a lease that still holds its coroutine and was     *)
(* never given to ReturnToPool destroys that coroutine and takes exactly one *)
(* from total_coroutines_num_; nothing is enqueued, idle_coroutines_num_ and *)
(* both queues are unchanged.                                                *)
C10_DropDestroys ==
    [][pc' = pc /\ leases' # leases =>
        \E c \in leases :
            /\ leases' = leases \ {c}
            /\ destroyed' = destroyed \cup {c}
            /\ total_coroutines_num_' + 1 = total_coroutines_num_
            /\ UNCHANGED <<idle_coroutines_num_, initial_coroutines_,
                           used_coroutines_, coroutine_ptr>>]_vars

(* A coroutine is destroyed though PutCoroutine was never called. *)
C10_Witness ==
    /\ destroyed # {}
    /\ releasers_peak = 0
    /\ leases # {}

(***************************************************************************)
(* C11: a successful GetCoroutine is either a hit or a miss. A hit takes   *)
(* one coroutine out of the warm or the pristine queue, then decrements    *)
(* idle_coroutines_num_ by one (modulo SizeModulus) and hands that         *)
(* coroutine out, total_coroutines_num_ unchanged. A miss constructs one   *)
(* new coroutine, then increments total_coroutines_num_ by one and hands   *)
(* the new coroutine out, idle_coroutines_num_ and both queues unchanged.  *)
(***************************************************************************)
InQueues == used_coroutines_ \cup {initial_coroutines_[i] : i \in 1..InitialSize}

C11_HitDequeues(t) ==
    pc[t] # "get_dec" /\ pc'[t] = "get_dec" =>
        /\ coroutine_ptr'[t] \in InQueues
        /\ InQueues' = InQueues \ {coroutine_ptr'[t]}
        /\ \/ UNCHANGED initial_coroutines_
           \/ UNCHANGED used_coroutines_
        /\ UNCHANGED <<idle_coroutines_num_, total_coroutines_num_, created,
                       leases>>

C11_HitReturns(t) ==
    pc[t] = "get_dec" /\ pc'[t] # "get_dec" =>
        /\ pc'[t] = "idle"
        /\ idle_coroutines_num_' =
               (idle_coroutines_num_ + SizeModulus - 1) % SizeModulus
        /\ leases' = leases \cup {coroutine_ptr[t]}
        /\ coroutine_ptr[t] \notin leases
        /\ UNCHANGED <<total_coroutines_num_, created, initial_coroutines_,
                       used_coroutines_>>

C11_MissConstructs(t) ==
    pc[t] # "create_inc" /\ pc'[t] = "create_inc" =>
        /\ created' = created + 1
        /\ coroutine_ptr'[t] = created'
        /\ UNCHANGED <<idle_coroutines_num_, total_coroutines_num_,
                       initial_coroutines_, used_coroutines_, leases>>

C11_MissCounts(t) ==
    pc[t] = "create_inc" /\ pc'[t] # "create_inc" =>
        /\ pc'[t] = "create_reg"
        /\ total_coroutines_num_' = total_coroutines_num_ + 1
        /\ UNCHANGED <<idle_coroutines_num_, created, initial_coroutines_,
                       used_coroutines_, leases, coroutine_ptr>>

C11_MissReturns(t) ==
    pc[t] = "create_reg" /\ pc'[t] # "create_reg" =>
        /\ pc'[t] = "idle"
        /\ leases' = leases \cup {coroutine_ptr[t]}
        /\ coroutine_ptr[t] \notin acquired
        /\ UNCHANGED <<idle_coroutines_num_, total_coroutines_num_, created,
                       initial_coroutines_, used_coroutines_>>

C11_GetHitOrMiss ==
    [][\A t \in Threads :
          /\ C11_HitDequeues(t)
          /\ C11_HitReturns(t)
          /\ C11_MissConstructs(t)
          /\ C11_MissCounts(t)
          /\ C11_MissReturns(t)]_vars

(* A hit and a miss have both handed their coroutine out: one lease holds  *)
(* a coroutine of the startup population, another one made on demand.      *)
C11_Witness ==
    /\ Quiescent
    /\ \E c \in leases : c <= config_.initial_size
    /\ \E c \in leases : c > config_.initial_size
    /\ idle_coroutines_num_ < config_.initial_size

(***************************************************************************)
(* C12: startup population. The step that ends the construction of a pool  *)
(* with initial_size = n <= max_size leaves total_coroutines_num_ = n, n    *)
(* coroutines in the pristine queue, the warm queue empty,                  *)
(* idle_coroutines_num_ = n, and a GetStats that reports active_coroutines  *)
(* = 0.                                                                     *)
(***************************************************************************)
C12_StartupPopulation ==
    [][/\ pc[Constructor] = "ctor_loop"
       /\ pc'[Constructor] = "idle"
       /\ config_.initial_size <= config_.max_size
       => /\ total_coroutines_num_' = config_.initial_size
          /\ Len(initial_coroutines_') = config_.initial_size
          /\ Cardinality({initial_coroutines_'[i] :
                              i \in 1..Len(initial_coroutines_')})
                 = config_.initial_size
          /\ used_coroutines_' = {}
          /\ idle_coroutines_num_' = config_.initial_size
          /\ GetStats'.active_coroutines = 0
          /\ leases' = {}]_vars

(* A pool has just been constructed with 1 <= initial_size <= max_size. *)
C12_Witness ==
    /\ Quiescent
    /\ acquired = {} /\ destroyed = {} /\ created = config_.initial_size
    /\ config_.initial_size >= 1
    /\ config_.initial_size <= config_.max_size
    /\ InitialSize = config_.initial_size

(***************************************************************************)
(* C13: warm recirculation. In sequential acquire-then-ReturnToPool pairs  *)
(* on a pool constructed with 1 <= initial_size <= max_size and no failing *)
(* allocation, total_coroutines_num_ stays initial_size, GetCoroutine      *)
(* never has to construct a coroutine and PutCoroutine never rejects one,  *)
(* and once a coroutine has been acquired every acquire is served by the   *)
(* warm queue: GetCoroutine gets as far as the pristine queue only when    *)
(* nothing has been acquired yet.                                          *)
(***************************************************************************)
C13_WarmRecirculation ==
    Constructed =>
        /\ total_coroutines_num_ = config_.initial_size
        /\ created = config_.initial_size
        /\ destroyed = {}
        /\ \A t \in Threads :
              /\ pc[t] \notin {"lease_dtor", "create_inc", "create_reg",
                                "get_throw"}
              /\ pc[t] = "get_initial" =>
                    /\ initial_coroutines_ # <<>>
                    /\ acquired = {}
        /\ InitialSize >= config_.initial_size - 1

(* An acquire has been served by the warm queue, with a coroutine that was *)
(* acquired and returned before, while the pristine queue still holds one. *)
C13_Witness ==
    \E t \in Threads :
        /\ pc[t] = "get_dec"
        /\ coroutine_ptr[t] \in acquired
        /\ initial_coroutines_ # <<>>

C15_AllocatesWhateverTotal ==
    /\ \A t \in Threads :
          pc[t] = "get_initial" /\ initial_coroutines_ = <<>> =>
              ENABLED CreateCoroutine_Construct(t)
    /\ Quiescent /\ used_coroutines_ = {} /\ initial_coroutines_ = <<>> =>
          total_coroutines_num_ = Cardinality(leases)

(* More leases are outstanding than max_size, each counted, and one more   *)
(* GetCoroutine has found both queues empty.                               *)
C15_Witness ==
    /\ used_coroutines_ = {} /\ initial_coroutines_ = <<>>
    /\ Cardinality(leases) > config_.max_size
    /\ total_coroutines_num_ = Cardinality(leases)
    /\ config_.max_size >= 1
    /\ \E t \in Threads : pc[t] = "get_initial"

(***************************************************************************)
(* C16: after construction the pristine queue is only drained. No step of  *)
(* a constructed pool makes it longer or puts a coroutine into it, the     *)
(* steps of PutCoroutine leave it as it is, and it never holds a coroutine *)
(* that GetCoroutine has handed out.                                       *)
(***************************************************************************)
PristineSet == {initial_coroutines_[i] : i \in 1..InitialSize}

C16_PristineOnlyDrained ==
    [][Constructed =>
          /\ Len(initial_coroutines_') <= Len(initial_coroutines_)
          /\ PristineSet' \subseteq PristineSet
          /\ PristineSet' \cap acquired' = {}
          /\ \A t \in Threads :
                pc'[t] # pc[t] /\ (InPut(t) \/ InPut(t)') =>
                    UNCHANGED initial_coroutines_]_vars

(* A coroutine drawn from the pristine queue has been leased and returned: *)
(* it is in the warm queue, and the pristine queue still holds another.    *)
C16_Witness ==
    /\ Quiescent
    /\ \E c \in used_coroutines_ : c <= config_.initial_size /\ c \in acquired
    /\ initial_coroutines_ # <<>>
    /\ InitialSize < config_.initial_size

(***************************************************************************)
(* C17: lifecycle states match the queues, as claimed. Every coroutine in  *)
(* the pristine queue has never been resumed, and every coroutine in the   *)
(* warm queue has been resumed at least once. Violated: PutCoroutine       *)
(* enqueues whatever the lease holds, so a coroutine that was acquired and *)
(* returned without a resume is in the warm queue, never resumed.          *)
(***************************************************************************)
C17_QueuesMatchLifecycle ==
    /\ PristineSet \cap resumed = {}
    /\ used_coroutines_ \subseteq resumed

(* C17, amended: every coroutine in the pristine queue has never been      *)
(* leased and so never resumed; every coroutine in the warm queue has been *)
(* leased at least once, resumed or not; only leased coroutines are ever   *)
(* resumed.                                                                *)
C17_QueuesMatchLeasing ==
    /\ PristineSet \cap (acquired \cup resumed) = {}
    /\ used_coroutines_ \subseteq acquired
    /\ resumed \subseteq acquired

(* The warm queue holds a coroutine that was resumed and one that was      *)
(* leased and returned with no resume.                                     *)
C17_Witness ==
    /\ Quiescent
    /\ used_coroutines_ \cap resumed # {}
    /\ used_coroutines_ \ resumed # {}

(***************************************************************************)
(* C18: at every quiescent point of a constructed pool GetStats reports    *)
(* active_coroutines = the number of outstanding leases, which is          *)
(* total_coroutines_num_ minus the sizes of the two queues and also        *)
(* total_coroutines_num_ - idle_coroutines_num_, and total_coroutines =    *)
(* total_coroutines_num_.                                                  *)
(***************************************************************************)
C18_StatsAtQuiescence ==
    Quiescent =>
        /\ GetStats.active_coroutines = Cardinality(leases)
        /\ GetStats.active_coroutines
               = total_coroutines_num_ - (UsedSize + InitialSize)
        /\ idle_coroutines_num_ <= total_coroutines_num_
        /\ GetStats.active_coroutines
               = total_coroutines_num_ - idle_coroutines_num_
        /\ GetStats.total_coroutines = total_coroutines_num_

(* A quiescent point with leases outstanding and idle coroutines in the    *)
(* queues.                                                                 *)
C18_Witness ==
    /\ Quiescent
    /\ Cardinality(leases) >= 2
    /\ UsedSize + InitialSize >= 1
    /\ GetStats.active_coroutines < GetStats.total_coroutines

(***************************************************************************)
(* C19: the coroutines that total_coroutines_num_ counts at the moment:    *)
(* constructed, past their ++total_coroutines_num_, not yet destroyed.     *)
(***************************************************************************)
Counted ==
    {c \in 1..created :
        /\ c \notin destroyed
        /\ \A t \in Threads : ~(pc[t] = "create_inc" /\ coroutine_ptr[t] = c)}

(* C19, as claimed: every coroutine the pool has created and that is in a  *)
(* queue or was handed out is registered with the monitor, and every       *)
(* coroutine that total_coroutines_num_ counts is registered already.      *)
(* Violated: CreateCoroutine increments the counter, then registers.       *)
C19_CountedIsRegistered ==
    /\ (PristineSet \cup used_coroutines_ \cup leases \cup acquired)
           \subseteq registered
    /\ Counted \subseteq registered

(* C19, amended: every coroutine in a queue or handed out is registered    *)
(* (CreateCoroutine registers it before it returns it); a coroutine is     *)
(* counted before it is registered, and the counted coroutines that are    *)
(* not registered yet are those whose CreateCoroutine is between its       *)
(* increment and its Register call.                                        *)
C19_RegisteredBeforeReturn ==
    /\ (PristineSet \cup used_coroutines_ \cup leases \cup acquired)
           \subseteq registered
    /\ registered \subseteq (Counted \cup destroyed)
    /\ Counted \ registered =
           {coroutine_ptr[t] : t \in {u \in Threads : pc[u] = "create_reg"}}
    /\ Quiescent => registered = 1..created

(* total_coroutines_num_ counts a coroutine made on demand that is not     *)
(* registered yet, next to a registered one that is leased.                *)
C19_Witness ==
    /\ \E t \in Threads :
          pc[t] = "create_reg" /\ coroutine_ptr[t] \notin registered
    /\ leases \cap registered # {}
    /\ total_coroutines_num_ > Cardinality(registered \ destroyed)

NoOverflow == config_given.stack_size + page_size - 1 < SizeModulus

SmallestMultipleAtLeast(s, p) ==
    CHOOSE m \in 0..(s + p) :
        /\ m % p = 0
        /\ m >= s
        /\ \A k \in 0..(s + p) : (k % p = 0 /\ k >= s) => m <= k

C21_RoundsUpToPage ==
    /\ fixup_calls >= 1 /\ NoOverflow =>
          GetStackSize(config) =
              SmallestMultipleAtLeast(config_given.stack_size, page_size)
    /\ config.initial_size = config_given.initial_size
    /\ config.max_size = config_given.max_size
    /\ config.monitor_period = config_given.monitor_period

(* FixupConfig has been applied twice to a stack size that is not a        *)
(* multiple of the page size.                                              *)
C21_Witness ==
    /\ fixup_calls = 2
    /\ NoOverflow
    /\ page_size > 1
    /\ config_given.stack_size % page_size # 0
    /\ GetStackSize(config) > config_given.stack_size

(***************************************************************************)
(* C22, as claimed: for every configured stack_size, 0 included, the stack *)
(* size of a constructed pool is at least one page. Violated: FixupConfig  *)
(* maps 0 to 0 (and a stack_size within page_size - 1 of the largest       *)
(* std::size_t wraps to 0).                                                *)
(***************************************************************************)
C22_AtLeastOnePage ==
    fixup_calls >= 1 => GetStackSize(config) >= page_size

ConstructionFailed == pc[Constructor] \in {"ctor_throw", "ctor_invariant"}

C24_PopulationFailureIsFatal ==
    [][/\ pc[Constructor] \in {"ctor_start", "ctor_loop"}
          /\ pc'[Constructor] = "idle"
          => /\ Len(initial_coroutines_') = config_.initial_size
             /\ created' = config_.initial_size
             /\ coroutine_ptr'[Constructor] = Null
       /\ ConstructionFailed => UNCHANGED vars
       /\ ConstructionFailed' =>
             /\ \A t \in Threads \ {Constructor} : pc'[t] = "no_pool"
             /\ Len(initial_coroutines_') < config_.initial_size
             /\ leases' = {} /\ acquired' = {}]_vars

(* The constructor has failed with the pristine queue partly filled. *)
C24_Witness ==
    /\ ConstructionFailed
    /\ InitialSize >= 1
    /\ InitialSize < config_.initial_size

(***************************************************************************)
(* C25: on an allocation failure GetCoroutine makes one attempt and always *)
(* propagates the failure. The failed attempt changes nothing of the pool; *)
(* the handler goes on to rethrow whatever errno is, never back to an      *)
(* attempt and never to a lease; it emits the diagnostic exactly when      *)
(* errno is ENOMEM, and no other step emits one; the call then ends with   *)
(* the error and no lease.                                                 *)
(***************************************************************************)
C25_Attempt(t) ==
    pc[t] # "create_catch" /\ pc'[t] = "create_catch" =>
        /\ pc[t] = "get_initial"
        /\ UNCHANGED <<log_errors, created, total_coroutines_num_,
                       idle_coroutines_num_, initial_coroutines_,
                       used_coroutines_, leases, acquired, coroutine_ptr>>

C25_Handler(t) ==
    pc[t] = "create_catch" /\ pc'[t] # "create_catch" =>
        /\ pc'[t] = "get_throw"
        /\ log_errors' = log_errors + (IF errno[t] = "ENOMEM" THEN 1 ELSE 0)
        /\ UNCHANGED <<errno, created, total_coroutines_num_,
                       idle_coroutines_num_, initial_coroutines_,
                       used_coroutines_, leases, acquired, coroutine_ptr>>

C25_Propagates(t) ==
    pc[t] = "get_throw" /\ pc'[t] # "get_throw" =>
        /\ pc'[t] = "idle"
        /\ coroutine_ptr[t] = Null
        /\ UNCHANGED <<errno, log_errors, created, total_coroutines_num_,
                       idle_coroutines_num_, initial_coroutines_,
                       used_coroutines_, leases, acquired, coroutine_ptr>>

C25_FailurePropagatesOnce ==
    [][/\ \A t \in Threads :
             C25_Attempt(t) /\ C25_Handler(t) /\ C25_Propagates(t)
       /\ log_errors' # log_errors =>
             \E t \in Threads :
                 /\ pc[t] = "create_catch"
                 /\ pc'[t] = "get_throw"
                 /\ errno[t] = "ENOMEM"]_vars

(* A diagnostic has been emitted for one failure, and another failure with *)
(* an errno other than ENOMEM is being propagated without one.             *)
C25_Witness ==
    /\ log_errors = 1
    /\ \E t \in Threads : pc[t] = "get_throw" /\ errno[t] = "EAGAIN"
    /\ \E t \in Threads : errno[t] = "ENOMEM"

(***************************************************************************)
(* C26: GetCoroutine and PutCoroutine never wait for another thread. In    *)
(* every state a thread inside a call has a step of its own to take,       *)
(* whatever the other threads are in the middle of; each of its steps      *)
(* lowers the number of steps the call has left, which is at most 3 after  *)
(* the first dequeue attempt of GetCoroutine and at most 2 after the load  *)
(* of PutCoroutine; and the call's last step hands out a lease, propagates *)
(* the error, completes an enqueue or destroys the coroutine.              *)
(***************************************************************************)
GetPcs == {"get_initial", "get_dec", "create_inc", "create_reg", "get_throw"}
PutPcs == {"put_enqueue", "put_inc", "lease_dtor"}

InCall(t) == pc[t] \in GetPcs \cup PutPcs

OwnStep(t) ==
    \/ GetCoroutine_TryInitial(t)
    \/ GetCoroutine_DecIdle(t)
    \/ CreateCoroutine_Construct(t)
    \/ CreateCoroutine_BadAlloc(t)
    \/ CreateCoroutine_IncTotal(t)
    \/ CreateCoroutine_Register(t)
    \/ GetCoroutine_Throw(t)
    \/ PutCoroutine_Enqueue(t)
    \/ PutCoroutine_EnqueueFail(t)
    \/ PutCoroutine_IncIdle(t)
    \/ CoroutinePtr_Destructor(t)

StepsLeft(p) ==
    CASE p = "get_initial" -> 3
      [] p = "create_inc"  -> 2
      [] p = "create_reg"  -> 1
      [] p = "get_dec"     -> 1
      [] p = "get_throw"   -> 1
      [] p = "put_enqueue" -> 2
      [] p = "put_inc"     -> 1
      [] p = "lease_dtor"  -> 1
      [] OTHER             -> 0

C26_NeverBlocked == \A t \in Threads : InCall(t) => ENABLED OwnStep(t)

C26_BoundedSteps(t) ==
    InCall(t) /\ pc'[t] # pc[t] =>
        /\ StepsLeft(pc'[t]) < StepsLeft(pc[t])
        /\ pc'[t] = "idle" =>
              \/ pc[t] \in {"get_dec", "create_reg"} /\
                    leases' = leases \cup {coroutine_ptr[t]}
              \/ pc[t] = "get_throw" /\ leases' = leases
              \/ pc[t] = "put_inc" /\
                    idle_coroutines_num_' = AtomicInc(idle_coroutines_num_)
              \/ pc[t] = "lease_dtor" /\
                    destroyed' = destroyed \cup {coroutine_ptr[t]}

C26_CallsAreWaitFree ==
    /\ []C26_NeverBlocked
    /\ [][\A t \in Threads :
             /\ C26_BoundedSteps(t)
             /\ ~InCall(t) /\ InCall(t)' =>
                   StepsLeft(pc'[t]) <= (IF pc'[t] \in GetPcs THEN 3 ELSE 2)]_vars

(* One thread is before the counter update of a hit while another is       *)
(* between the enqueue and the increment of a PutCoroutine.                *)
C26_Witness ==
    \E t, u \in Threads : pc[t] = "get_dec" /\ pc[u] = "put_inc"

(***************************************************************************)
(* C27: teardown leaks nothing. The destructor of a pool with no           *)
(* outstanding lease destroys every coroutine of the pristine queue and    *)
(* every coroutine of the warm queue, and once the pool is destroyed no    *)
(* coroutine it ever created is still alive.                               *)
(***************************************************************************)
Alive == (1..created) \ destroyed

C27_TeardownLeaksNothing ==
    /\ [](TornDown => Alive = {})
    /\ [][~TornDown /\ TornDown' =>
             /\ leases = {}
             /\ InQueues \subseteq destroyed'
             /\ InQueues = Alive]_vars

(* A destroyed pool that held at teardown a coroutine never handed out and *)
(* one that had been handed out and returned.                              *)
C27_Witness ==
    /\ TornDown
    /\ (1..created) \ acquired # {}
    /\ acquired # {}
    /\ idle_coroutines_num_ = created
    /\ total_coroutines_num_ = created

(***************************************************************************)
(* C28: the thread-local tokens are not semantic, as claimed. A coroutine  *)
(* released through PutCoroutine of pool p is afterwards in no other       *)
(* pool's warm queue, and a coroutine that GetCoroutine of pool p hands    *)
(* out was in one of p's two queues or is newly constructed by p, also on  *)
(* a thread whose tokens were made by a call on another pool.              *)
(***************************************************************************)
C28_TokensNotSemantic ==
    [][\A p \in Pools :
         /\ \A l \in leases_of \ leases_of' :
               l[2] = p => \A q \in Pools \ {p} : l[1] \notin used_of'[q]
         /\ \A l \in leases_of' \ leases_of :
               l[2] = p =>
                   \/ l[1] \in used_of[p] \cup initial_of[p]
                   \/ l[1] \in created_of'[p] \ created_of[p]]_vars

(***************************************************************************)
(* C29: a task blocked in lock() on a mutex another task holds stays       *)
(* blocked for as long as the mutex is held, also once its cancellation    *)
(* has been requested; it leaves the wait only by taking the free mutex;   *)
(* and it does in the end hold the mutex and finish without an error.      *)
(***************************************************************************)
C29_LockIgnoresCancel ==
    /\ [][\A k \in Tasks :
             task_at[k] = "lock_wait" =>
                 /\ mutex_owner # NoTask => task_at'[k] = "lock_wait"
                 /\ task_at'[k] # "lock_wait" =>
                       task_at'[k] = "holding" /\ mutex_owner' = k]_vars
    /\ \A k \in Tasks : (task_at[k] = "lock_wait") ~> (task_at[k] = "done")

(* A task waits in lock() on a held mutex with its cancellation requested. *)
C29_Witness ==
    \E k \in Tasks :
        /\ task_at[k] = "lock_wait"
        /\ cancel_requested[k]
        /\ mutex_owner \notin {NoTask, k}

(***************************************************************************)
(* C30: every kind of lock call made on an unlocked mutex takes it. On a   *)
(* held mutex try_lock fails at once and takes nothing; a timed try-lock   *)
(* (of a task not cancelled) waits while the mutex is held and its         *)
(* deadline has not passed, fails only once the deadline has passed, and   *)
(* then takes nothing; and a waiter whose deadline does not pass obtains   *)
(* the mutex in the end.                                                   *)
(***************************************************************************)
C30_Start(k) ==
    task_at[k] = "start" /\ task_at'[k] # "start" =>
        IF mutex_owner = NoTask
        THEN task_at'[k] = "holding" /\ mutex_owner' = k
        ELSE /\ task_at'[k] \in {"lock_wait", "try_wait", "failed"}
             /\ mutex_owner' = mutex_owner

C30_Waiter(k) ==
    task_at[k] = "try_wait" /\ ~cancel_requested[k] =>
        /\ mutex_owner # NoTask /\ ~deadline_reached[k] =>
              task_at'[k] = "try_wait"
        /\ task_at'[k] # "try_wait" =>
              \/ task_at'[k] = "holding" /\ mutex_owner = NoTask /\
                    mutex_owner' = k
              \/ task_at'[k] = "failed" /\ deadline_reached[k] /\
                    mutex_owner' = mutex_owner

C30_TryLock ==
    /\ [][\A k \in Tasks : C30_Start(k) /\ C30_Waiter(k)]_vars
    /\ \A k \in Tasks :
          (task_at[k] = "try_wait") ~>
              \/ task_at[k] \in {"holding", "done"}
              \/ deadline_reached[k]
              \/ cancel_requested[k]

(* A timed try-lock has failed at its deadline while another task, which   *)
(* took the mutex unlocked, still holds it.                                *)
C30_Witness ==
    \E k, j \in Tasks :
        /\ task_at[k] = "failed"
        /\ deadline_reached[k]
        /\ ~cancel_requested[k]
        /\ task_at[j] = "holding"
        /\ mutex_owner = j

(***************************************************************************)
(* C31: Dumper thread safety. Under any interleaving of OnUpdateCompleted, *)
(* WriteDumpAsync, ReadDumpDebug and WriteDumpSyncDebug on one Dumper, at  *)
(* most one of GetAndWrite (in the dump task) and ReadAndSet (in a caller) *)
(* is being executed, and no try-lock inside them has ever failed.         *)
(***************************************************************************)
InEntity == {k \in Tasks : caller_at[k] = "reading"} \cup
            (IF dump_task = "writing" THEN {DumpTask} ELSE {})

C31_EntityNeverShared ==
    /\ ~try_lock_failed
    /\ Cardinality(InEntity) <= 1
    /\ InEntity = (IF entity_mutex = NoTask THEN {} ELSE {entity_mutex})

(* GetAndWrite is being executed in the dump task while one caller is in   *)
(* ReadDumpDebug, awaiting it, and another has an update with changes.     *)
C31_Witness ==
    /\ dump_task = "writing"
    /\ entity_mutex = DumpTask
    /\ updated
    /\ \E k \in Tasks : caller_at[k] = "read_wait"

(***************************************************************************)
(* C32: idle_coroutines_num_ never underflows, as claimed. Under any       *)
(* interleaving the decrement of GetCoroutine is executed on a counter     *)
(* above 0, and the counter is never 2^w - 1.                              *)
(***************************************************************************)
C32_IdleNeverUnderflows ==
    [][/\ \A t \in Threads :
             pc[t] = "get_dec" /\ pc'[t] # "get_dec" =>
                 idle_coroutines_num_ > 0
       /\ idle_coroutines_num_' # SizeModulus - 1]_vars

(***************************************************************************)
(* C33: no spurious discard, as claimed. Whenever the ceiling check of     *)
(* PutCoroutine rejects a coroutine, the pristine and the warm queue hold  *)
(* together at least max_size - A coroutines, A the number of GetCoroutine *)
(* calls that have dequeued and not yet decremented the counter.           *)
(***************************************************************************)
DequeuedNotCounted == {t \in Threads : pc[t] = "get_dec"}

C33_NoSpuriousDiscard ==
    [][\A t \in Threads :
         pc[t] = "idle" /\ pc'[t] = "lease_dtor" =>
             InitialSize + UsedSize + Cardinality(DequeuedNotCounted)
                 >= config_.max_size]_vars

(***************************************************************************)
(* C34: at every quiescent point of a constructed pool                     *)
(* idle_coroutines_num_ is the number of coroutines in the pristine queue  *)
(* plus the number in the warm queue, whatever the interleaving of the     *)
(* acquires, releases and drops before.                                    *)
(***************************************************************************)
C34_IdleIsQueuedAtQuiescence ==
    Quiescent => idle_coroutines_num_ = InitialSize + UsedSize

(* A quiescent point with a coroutine in each queue, after an acquire and  *)
(* a release.                                                              *)
C34_Witness ==
    /\ Quiescent
    /\ InitialSize >= 1
    /\ UsedSize >= 1
    /\ acquired # {}

C35_RejectionsFindWarmFull ==
    [][\A t \in Threads :
         pc[t] = "idle" /\ pc'[t] = "lease_dtor" =>
             InitialSize = 0 /\ UsedSize = config_.max_size]_vars

(***************************************************************************)
(* C36: total_coroutines_num_ never underflows and is never below the      *)
(* number of leases that hold a live coroutine. In every state the counter *)
(* is at least the number of such CoroutinePtr objects and at most the     *)
(* number of coroutines ever constructed; a step destroys at most one      *)
(* coroutine, and the counter goes down exactly in the steps that destroy  *)
(* one, by one, from a value above 0 (a lease emptied by a successful      *)
(* return decrements nothing).                                             *)
(***************************************************************************)
LiveLeases ==
    leases \cup {coroutine_ptr[t] : t \in {u \in Threads :
                     /\ pc[u] \in {"put_enqueue", "put_inc", "lease_dtor"}
                     /\ coroutine_ptr[u] # Null}}

C36_TotalCoversLeases ==
    /\ [](/\ total_coroutines_num_ >= Cardinality(LiveLeases)
          /\ total_coroutines_num_ <= created)
    /\ [][/\ destroyed' # destroyed =>
                /\ Cardinality(destroyed') = Cardinality(destroyed) + 1
                /\ total_coroutines_num_ > 0
                /\ total_coroutines_num_' = total_coroutines_num_ - 1
          /\ total_coroutines_num_' < total_coroutines_num_ =>
                destroyed' # destroyed
          /\ \A t \in Threads :
                pc[t] = "put_inc" /\ pc'[t] = "idle" =>
                    UNCHANGED <<total_coroutines_num_, destroyed>>]_vars

(* Leases are outstanding, one of them inside a rejected release, and a    *)
(* coroutine has been destroyed through a lease before.                    *)
C36_Witness ==
    /\ \E t \in Threads : pc[t] = "lease_dtor" /\ coroutine_ptr[t] # Null
    /\ leases # {}
    /\ destroyed # {}
    /\ total_coroutines_num_ = Cardinality(LiveLeases)

(* C37: a GetStats that runs while another thread acquires and releases    *)
(* never reports a wrapped value: the active_coroutines and                *)
(* total_coroutines it returns do not exceed the largest value             *)
(* total_coroutines_num_ took during the call.  The counter never exceeds  *)
(* the number of coroutines constructed so far, so a returned value above  *)
(* that number is above every value the counter took.                      *)
C37_StatsNeverWrapped ==
    stats_pc = "returned" =>
        /\ stats.active_coroutines <= created
        /\ stats.total_coroutines <= created

(* C38: on pool destruction the stack usage monitor is stopped before any  *)
(* idle coroutine's stack is released: no step destroys a registered       *)
(* coroutine of the warm or the pristine queue and leaves the monitor      *)
(* active.                                                                 *)
C38_MonitorStoppedFirst ==
    [][\A c \in registered \cap InQueues :
           c \in destroyed' \ destroyed => ~monitor_active']_vars

(* C39: rounding never shrinks the stack: for every requested stack_size a *)
(* std::size_t holds, those within one page of 2^w included, the           *)
(* stack_size FixupConfig computes is at least the requested one.          *)
C39_RoundingNeverShrinks ==
    fixup_calls >= 1 => GetStackSize(config) >= config_given.stack_size
====
